---- MODULE Spec2Model ----
(***************************************************************************)
(* Model of the chasi-sreagent orchestration engine (package engine,       *)
(* SREAgentEngine), the action and analyzer registries, and the agent loop *)
(* of cmd/agent/main.go with its ticker and its cancellation.              *)
(*                                                                         *)
(* Strings that the code builds by concatenation are sequences of string   *)
(* tokens; strings that are only compared are TLA+ strings.  The answers   *)
(* of the collaborators (Collect, Analyze, Retrieve, GenerateText, Plan,   *)
(* Execute) are inputs of the call, kept in env; the invocations a call    *)
(* makes on them are listed, in order, in calls.                           *)
(***************************************************************************)
EXTENDS Integers, Sequences, FiniteSets, TLC

VARIABLES
    enabled,         \* e.config.Actions.Enabled
    registry,        \* globalActionRegistry.actions: name -> Type() of the instance
    actions,         \* e.actions
    knowledgeBase,   \* e.knowledgeBase # nil
    dataCollectors,  \* e.dataCollectors
    analyzers,       \* e.analyzers
    analyzerRegistry, \* globalAnalyzerRegistry.analyzers: name -> the instance
    op,              \* the engine method called last
    arg,             \* its argument
    env,             \* what the collaborators answered during the call
    ret,             \* what it returned
    calls,           \* the invocations it made, in order
    pc,              \* position of the agent loop goroutine
    ctxDone,         \* the top-level context has been cancelled
    suggestions,     \* the list the agent loop ranges over
    idx,             \* index of the suggestion the loop is at
    executed,        \* Execute invocations of the current pass
    tick,            \* a tick is waiting in ticker.C
    passes,          \* passes of the agent loop in flight
    passCalls,       \* the invocations of the current pass, in order
    heap,            \* a Diagnosis that is passed to SuggestActions repeatedly
    mu,              \* globalActionRegistry.mu
    threads          \* goroutines that call the action registry

vars == <<enabled, registry, actions, knowledgeBase, dataCollectors, analyzers,
          analyzerRegistry, op, arg, env, ret, calls, pc, ctxDone, suggestions,
          idx, executed, tick, passes, passCalls, heap, mu, threads>>

config == <<enabled, registry, actions, knowledgeBase, dataCollectors, analyzers,
            analyzerRegistry>>
loop == <<pc, ctxDone, suggestions, idx, executed, tick, passes, passCalls>>
memory == <<heap, mu, threads>>

-----------------------------------------------------------------------------
(* Bounds *)

MaxActions == 2
MaxLLMSuggestions == 2
MaxCollectors == 2
MaxAnalyzers == 2
MaxIssues == 1
MaxDiagnosedIssues == 2
MaxAllowList == 2
MaxSpare == 1
MaxThreads == 3

-----------------------------------------------------------------------------
(* Values *)

ActionTypeUnknown == "Unknown"
ActionTypeSuggestion == "Suggestion"
ActionTypeAutomated == "Automated"
ActionTypes == {ActionTypeUnknown, ActionTypeSuggestion, ActionTypeAutomated}

ActionNames == {"restart_pod", "scale_deployment"}
Sources == ActionNames \cup {"LLM"}
Descriptions == {"Restart pod X", "Scale deployment Y"}

ErrorCodeUnknown == "UNKNOWN"
ErrorCodeLLMProviderError == "LLM_PROVIDER_ERROR"
ErrorCodeActionExecutionFailed == "ACTION_EXECUTION_FAILED"
ErrorCodeInvalidInput == "INVALID_INPUT"
ErrorCodeNotFound == "NOT_FOUND"

\* a nil error
NilErr == [Code |-> "", Message |-> "", Wrapped |-> ""]

New(code, message) == [Code |-> code, Message |-> message, Wrapped |-> ""]

Wrap(code, message, err) == [Code |-> code, Message |-> message, Wrapped |-> err]

RemediationSuggestion == [Description : Descriptions, ActionType : ActionTypes, Source : Sources]

\* what an action's Execute answers: a result text, or an error
ExecuteOutcomes == [ok : {TRUE}, text : {"", "pod restarted"}]
                       \cup [ok : {FALSE}, text : {"delete failed"}]

-----------------------------------------------------------------------------
(* Action registry *)

GetAction(name) ==
    IF name \in DOMAIN registry
    THEN [found |-> TRUE, Type |-> registry[name]]
    ELSE [found |-> FALSE, Type |-> ActionTypeUnknown]

-----------------------------------------------------------------------------
(* ExecuteAction *)

ExecuteCall(s) == [fn |-> "Execute", name |-> s.Source, suggestion |-> s]

ExecuteAction_NoSuggestionTypeGate(suggestion, out) ==
    IF ~enabled
    THEN [result |-> "", err |-> New(ErrorCodeActionExecutionFailed, "automated actions disabled"),
          calls |-> <<>>]
    ELSE LET act == GetAction(suggestion.Source) IN
         IF ~act.found
         THEN [result |-> "", err |-> New(ErrorCodeNotFound, "action implementation not found"),
               calls |-> <<>>]
         ELSE IF act.Type # ActionTypeAutomated
         THEN [result |-> "", err |-> New(ErrorCodeInvalidInput, "registered action is not automated"),
               calls |-> <<>>]
         ELSE IF ~out.ok
         THEN [result |-> "",
               err |-> Wrap(ErrorCodeActionExecutionFailed, "failed to execute action", out.text),
               calls |-> <<ExecuteCall(suggestion)>>]
         ELSE [result |-> out.text, err |-> NilErr, calls |-> <<ExecuteCall(suggestion)>>]

ExecuteAction_NoEnabledGate(suggestion, out) ==
    IF suggestion.ActionType # ActionTypeAutomated
    THEN [result |-> "", err |-> New(ErrorCodeInvalidInput, "action type is not automated"),
          calls |-> <<>>]
    ELSE LET act == GetAction(suggestion.Source) IN
         IF ~act.found
         THEN [result |-> "", err |-> New(ErrorCodeNotFound, "action implementation not found"),
               calls |-> <<>>]
         ELSE IF act.Type # ActionTypeAutomated
         THEN [result |-> "", err |-> New(ErrorCodeInvalidInput, "registered action is not automated"),
               calls |-> <<>>]
         ELSE IF ~out.ok
         THEN [result |-> "",
               err |-> Wrap(ErrorCodeActionExecutionFailed, "failed to execute action", out.text),
               calls |-> <<ExecuteCall(suggestion)>>]
         ELSE [result |-> out.text, err |-> NilErr, calls |-> <<ExecuteCall(suggestion)>>]

ExecuteAction_NoRegisteredTypeGate(suggestion, out) ==
    IF suggestion.ActionType # ActionTypeAutomated
    THEN [result |-> "", err |-> New(ErrorCodeInvalidInput, "action type is not automated"),
          calls |-> <<>>]
    ELSE IF ~enabled
    THEN [result |-> "", err |-> New(ErrorCodeActionExecutionFailed, "automated actions disabled"),
          calls |-> <<>>]
    ELSE LET act == GetAction(suggestion.Source) IN
         IF ~act.found
         THEN [result |-> "", err |-> New(ErrorCodeNotFound, "action implementation not found"),
               calls |-> <<>>]
         ELSE IF ~out.ok
         THEN [result |-> "",
               err |-> Wrap(ErrorCodeActionExecutionFailed, "failed to execute action", out.text),
               calls |-> <<ExecuteCall(suggestion)>>]
         ELSE [result |-> out.text, err |-> NilErr, calls |-> <<ExecuteCall(suggestion)>>]

ExecuteAction_RetryOnFailure(suggestion, out) ==
    IF suggestion.ActionType # ActionTypeAutomated
    THEN [result |-> "", err |-> New(ErrorCodeInvalidInput, "action type is not automated"),
          calls |-> <<>>]
    ELSE IF ~enabled
    THEN [result |-> "", err |-> New(ErrorCodeActionExecutionFailed, "automated actions disabled"),
          calls |-> <<>>]
    ELSE LET act == GetAction(suggestion.Source) IN
         IF ~act.found
         THEN [result |-> "", err |-> New(ErrorCodeNotFound, "action implementation not found"),
               calls |-> <<>>]
         ELSE IF act.Type # ActionTypeAutomated
         THEN [result |-> "", err |-> New(ErrorCodeInvalidInput, "registered action is not automated"),
               calls |-> <<>>]
         ELSE IF ~out.ok
         THEN [result |-> "",
               err |-> Wrap(ErrorCodeActionExecutionFailed, "failed to execute action", out.text),
               calls |-> <<ExecuteCall(suggestion), ExecuteCall(suggestion)>>]
         ELSE [result |-> out.text, err |-> NilErr, calls |-> <<ExecuteCall(suggestion)>>]

\* SREAgentEngine.ExecuteAction: what it returns and the invocations it makes,
\* when the resolved action's Execute answers out
ExecuteAction(suggestion, out) ==
    IF suggestion.ActionType # ActionTypeAutomated
    THEN [result |-> "", err |-> New(ErrorCodeInvalidInput, "action type is not automated"),
          calls |-> <<>>]
    ELSE IF ~enabled
    THEN [result |-> "", err |-> New(ErrorCodeActionExecutionFailed, "automated actions disabled"),
          calls |-> <<>>]
    ELSE LET act == GetAction(suggestion.Source) IN
         IF ~act.found
         THEN [result |-> "", err |-> New(ErrorCodeNotFound, "action implementation not found"),
               calls |-> <<>>]
         ELSE IF act.Type # ActionTypeAutomated
         THEN [result |-> "", err |-> New(ErrorCodeInvalidInput, "registered action is not automated"),
               calls |-> <<>>]
         ELSE IF ~out.ok
         THEN [result |-> "",
               err |-> Wrap(ErrorCodeActionExecutionFailed, "failed to execute action", out.text),
               calls |-> <<ExecuteCall(suggestion)>>]
         ELSE [result |-> out.text, err |-> NilErr, calls |-> <<ExecuteCall(suggestion)>>]

\* a caller invokes ExecuteAction with any suggestion
CallExecuteAction ==
    /\ op = ""
    /\ \E s \in RemediationSuggestion, out \in ExecuteOutcomes :
           LET r == ExecuteAction(s, out) IN
           /\ op' = "ExecuteAction"
           /\ arg' = s
           /\ env' = out
           /\ ret' = [result |-> r.result, err |-> r.err]
           /\ calls' = r.calls
           /\ UNCHANGED <<config, memory, loop>>

\* the caller has taken the result of the call; the engine keeps nothing of it
Return ==
    /\ op # ""
    /\ op' = "" /\ arg' = <<>> /\ env' = <<>> /\ ret' = <<>> /\ calls' = <<>>
    /\ UNCHANGED <<config, memory, loop>>

\* any registry contents, either value of the automation flag
InitExecute ==
    /\ enabled \in BOOLEAN
    /\ \E S \in SUBSET ActionNames : registry \in [S -> ActionTypes]
    /\ actions = <<>>
    /\ knowledgeBase = FALSE
    /\ dataCollectors = <<>>
    /\ analyzers = <<>>
    /\ op = "" /\ arg = <<>> /\ env = <<>> /\ ret = <<>> /\ calls = <<>>
    /\ analyzerRegistry = <<>>
    /\ pc = "idle" /\ ctxDone = FALSE /\ suggestions = <<>> /\ idx = 0 /\ executed = <<>>
    /\ tick = FALSE /\ passes = 0 /\ passCalls = <<>>
    /\ heap = <<>> /\ mu = <<>> /\ threads = <<>>

NextExecute == CallExecuteAction \/ Return

SpecExecute == InitExecute /\ [][NextExecute]_vars

-----------------------------------------------------------------------------
(* Properties of ExecuteAction *)

ExecuteCalls == SelectSeq(calls, LAMBDA c : c.fn = "Execute")

\* C1: ExecuteAction with a suggestion that is not classified automatable
\* returns an error and invokes no Execute, whatever the automation flag and
\* the producer name.
C1_SuggestionOnlyRejected ==
    (op = "ExecuteAction" /\ arg.ActionType # ActionTypeAutomated)
        => (ret.err # NilErr /\ ret.result = "" /\ ExecuteCalls = <<>>)

\* a suggestion-only suggestion whose producer is a registered automatable
\* action was rejected while automation is enabled
C1_Witness ==
    /\ op = "ExecuteAction"
    /\ arg.ActionType = ActionTypeSuggestion
    /\ enabled
    /\ arg.Source \in DOMAIN registry
    /\ registry[arg.Source] = ActionTypeAutomated
    /\ ret.err.Code = ErrorCodeInvalidInput

\* C2: ExecuteAction with an automatable suggestion while automation is
\* disabled returns an error and invokes no Execute, even when the producer
\* resolves to a registered automatable action.
C2_DisabledRejected ==
    (op = "ExecuteAction" /\ arg.ActionType = ActionTypeAutomated /\ ~enabled)
        => (ret.err # NilErr /\ ret.result = "" /\ ExecuteCalls = <<>>)

C2_Witness ==
    /\ op = "ExecuteAction"
    /\ arg.ActionType = ActionTypeAutomated
    /\ ~enabled
    /\ arg.Source \in DOMAIN registry
    /\ registry[arg.Source] = ActionTypeAutomated
    /\ ret.err.Code = ErrorCodeActionExecutionFailed
    /\ ret.err.Wrapped = ""

ProducerResolvesToAutomated ==
    /\ arg.Source \in DOMAIN registry
    /\ registry[arg.Source] = ActionTypeAutomated

\* C5: with an automatable suggestion and automation enabled, Execute is
\* invoked only if the producer name resolves to a registered action whose
\* own Type is automatable; otherwise an error is returned and no Execute is
\* invoked.
C5_ProducerMustBeAutomated ==
    (op = "ExecuteAction" /\ arg.ActionType = ActionTypeAutomated /\ enabled)
        => /\ ExecuteCalls # <<>> => ProducerResolvesToAutomated
           /\ ~ProducerResolvesToAutomated
                 => (ret.err # NilErr /\ ret.result = "" /\ ExecuteCalls = <<>>)

\* an automatable suggestion naming a registered suggestion-only action was
\* rejected with automation enabled
C5_Witness ==
    /\ op = "ExecuteAction"
    /\ arg.ActionType = ActionTypeAutomated
    /\ enabled
    /\ arg.Source \in DOMAIN registry
    /\ registry[arg.Source] = ActionTypeSuggestion
    /\ ret.err.Message = "registered action is not automated"

GatesHold ==
    /\ op = "ExecuteAction"
    /\ arg.ActionType = ActionTypeAutomated
    /\ enabled
    /\ ProducerResolvesToAutomated

\* C6: when the three gate preconditions hold, Execute of the resolved action
\* is invoked exactly once with the suggestion; on success its text is returned
\* unchanged with a nil error, on failure an error wrapping the action's error
\* is returned with an empty result.
C6_ExecuteOnce ==
    GatesHold
        => /\ ExecuteCalls = <<[fn |-> "Execute", name |-> arg.Source, suggestion |-> arg]>>
           /\ env.ok => (ret.result = env.text /\ ret.err = NilErr)
           /\ ~env.ok => /\ ret.result = ""
                         /\ ret.err # NilErr
                         /\ ret.err.Wrapped = env.text

\* Execute failed behind open gates
C6_Witness ==
    /\ GatesHold
    /\ ~env.ok
    /\ ret.err.Code = ErrorCodeActionExecutionFailed
    /\ Len(calls) = 1

-----------------------------------------------------------------------------
(* SuggestActions *)

\* what an action's Plan answers, but for the producer name: an error, or
\* (isRelevant, suggestion)
PlanAnswers ==
    {[kind |-> "err", Description |-> "", ActionType |-> ActionTypeUnknown]}
    \cup [kind : {"relevant", "irrelevant"},
          Description : Descriptions,
          ActionType : {ActionTypeSuggestion, ActionTypeAutomated}]

\* the answer a of the Plan of act; a suggestion names act as its Source
PlanOutcome(act, a) ==
    [kind |-> a.kind,
     suggestion |-> [Description |-> a.Description,
                     ActionType |-> a.ActionType,
                     Source |-> IF a.kind = "err" THEN "" ELSE act.name]]

PlanCall(i) == [fn |-> "Plan", name |-> actions[i].name, at |-> i]

\* the loop over e.actions: acc.allSuggestions and the Plan invocations so far
RECURSIVE PlanActions(_, _, _)
PlanActions(i, outs, acc) ==
    IF i > Len(actions) THEN acc
    ELSE IF actions[i].Type = ActionTypeAutomated /\ ~enabled
    THEN PlanActions(i + 1, outs, acc)
    ELSE LET called == [acc EXCEPT !.calls = Append(@, PlanCall(i))] IN
         IF outs[i].kind = "err" THEN PlanActions(i + 1, outs, called)
         ELSE IF outs[i].kind = "relevant"
         THEN PlanActions(i + 1, outs,
                  [called EXCEPT !.allSuggestions = Append(@, outs[i].suggestion)])
         ELSE PlanActions(i + 1, outs, called)

\* suggestionMap after the first loop: the descriptions of the LLM suggestions
DescriptionsOf(list) == {list[k].Description : k \in 1..Len(list)}

RECURSIVE MergeLoop_NoCheck(_, _, _, _)
MergeLoop_NoCheck(j, allSuggestions, combinedSuggestions, suggestionMap) ==
    IF j > Len(allSuggestions) THEN combinedSuggestions
    ELSE MergeLoop_NoCheck(j + 1, allSuggestions,
                           Append(combinedSuggestions, allSuggestions[j]),
                           suggestionMap \cup {allSuggestions[j].Description})

RECURSIVE MergeLoop_NoMapUpdate(_, _, _, _)
MergeLoop_NoMapUpdate(j, allSuggestions, combinedSuggestions, suggestionMap) ==
    IF j > Len(allSuggestions) THEN combinedSuggestions
    ELSE IF allSuggestions[j].Description \notin suggestionMap
    THEN MergeLoop_NoMapUpdate(j + 1, allSuggestions,
                               Append(combinedSuggestions, allSuggestions[j]),
                               suggestionMap)
    ELSE MergeLoop_NoMapUpdate(j + 1, allSuggestions, combinedSuggestions, suggestionMap)

\* the loop over allSuggestions that appends the unseen descriptions
RECURSIVE MergeLoop(_, _, _, _)
MergeLoop(j, allSuggestions, combinedSuggestions, suggestionMap) ==
    IF j > Len(allSuggestions) THEN combinedSuggestions
    ELSE IF allSuggestions[j].Description \notin suggestionMap
    THEN MergeLoop(j + 1, allSuggestions,
                   Append(combinedSuggestions, allSuggestions[j]),
                   suggestionMap \cup {allSuggestions[j].Description})
    ELSE MergeLoop(j + 1, allSuggestions, combinedSuggestions, suggestionMap)

\* SREAgentEngine.SuggestActions when the actions' Plan answer outs
SuggestActions(diagnosisResult, outs) ==
    LET planned == PlanActions(1, outs, [allSuggestions |-> <<>>, calls |-> <<>>])
    IN  [result |-> MergeLoop(1, planned.allSuggestions, diagnosisResult.Suggestions,
                              DescriptionsOf(diagnosisResult.Suggestions)),
         err |-> NilErr,
         calls |-> planned.calls]

\* the outcomes of Plan, one per action of e.actions
PlanOutcomeLists ==
    {[i \in 1..Len(actions) |-> PlanOutcome(actions[i], a[i])] :
        a \in [1..Len(actions) -> PlanAnswers]}

SeqsUpTo(S, n) == UNION {[1..k -> S] : k \in 0..n}

LLMSuggestions == [Description : Descriptions, ActionType : {ActionTypeSuggestion}, Source : {"LLM"}]

\* the diagnoses SuggestActions is called with
SuggestDiagnoses ==
    [RootCause : {<<"root cause">>},
     Suggestions : SeqsUpTo(LLMSuggestions, MaxLLMSuggestions),
     KnowledgeBaseHits : {<<>>},
     LLMInteraction : {<<>>},
     Error : {<<>>}]

CallSuggestActions ==
    /\ op = ""
    /\ \E d \in SuggestDiagnoses, outs \in PlanOutcomeLists :
           LET r == SuggestActions(d, outs) IN
           /\ op' = "SuggestActions"
           /\ arg' = d
           /\ env' = outs
           /\ ret' = [result |-> r.result, err |-> r.err]
           /\ calls' = r.calls
           /\ UNCHANGED <<config, memory, loop>>

EngineActions == [name : ActionNames, Type : {ActionTypeSuggestion, ActionTypeAutomated}]

InitSuggest ==
    /\ enabled \in BOOLEAN
    /\ registry = <<>>
    /\ actions \in SeqsUpTo(EngineActions, MaxActions)
    /\ knowledgeBase = FALSE
    /\ dataCollectors = <<>>
    /\ analyzers = <<>>
    /\ op = "" /\ arg = <<>> /\ env = <<>> /\ ret = <<>> /\ calls = <<>>
    /\ analyzerRegistry = <<>>
    /\ pc = "idle" /\ ctxDone = FALSE /\ suggestions = <<>> /\ idx = 0 /\ executed = <<>>
    /\ tick = FALSE /\ passes = 0 /\ passCalls = <<>>
    /\ heap = <<>> /\ mu = <<>> /\ threads = <<>>

NextSuggest == CallSuggestActions \/ Return

SpecSuggest == InitSuggest /\ [][NextSuggest]_vars

-----------------------------------------------------------------------------
(* Properties of SuggestActions *)

PlanCalledAt(i) == \E k \in 1..Len(calls) : calls[k].fn = "Plan" /\ calls[k].at = i

\* the action at i was asked to plan and answered with a relevant suggestion
PlannedRelevant(i) == PlanCalledAt(i) /\ env[i].kind = "relevant"

InResult(s) == \E k \in 1..Len(ret.result) : ret.result[k] = s

\* C4: with automation disabled, Plan is still invoked on every automatable
\* action, and the suggestion of each that reports itself relevant is in the
\* returned list unless an earlier suggestion has the same description.
C4_DisabledStillPlans ==
    (op = "SuggestActions" /\ ~enabled)
        => \A i \in 1..Len(actions) :
              actions[i].Type = ActionTypeAutomated
                  => /\ PlanCalledAt(i)
                     /\ env[i].kind = "relevant"
                           => \/ InResult(env[i].suggestion)
                              \/ \E k \in 1..Len(ret.result) :
                                    ret.result[k].Description = env[i].suggestion.Description

\* the indices of e.actions whose suggestion SuggestActions collected and
\* whose description no LLM suggestion and no earlier collected suggestion has
KeptIndices ==
    {i \in 1..Len(actions) :
        /\ PlannedRelevant(i)
        /\ env[i].suggestion.Description \notin DescriptionsOf(arg.Suggestions)
        /\ \A j \in 1..(i - 1) :
              PlannedRelevant(j)
                  => env[j].suggestion.Description # env[i].suggestion.Description}

\* C7: the returned list is the reasoning backend's suggestions in their
\* order, followed, in the order of e.actions, by each relevant action-planned
\* suggestion whose description is not that of a suggestion already in the
\* list; of two suggestions with one description the first wins.
C7_MergeOrder ==
    op = "SuggestActions"
        => LET n == Len(arg.Suggestions)
               tail == SubSeq(ret.result, n + 1, Len(ret.result))
           IN  /\ ret.err = NilErr
               /\ Len(ret.result) = n + Cardinality(KeptIndices)
               /\ SubSeq(ret.result, 1, n) = arg.Suggestions
               /\ \A k \in 1..Len(tail) :
                     \E i \in KeptIndices :
                        /\ tail[k] = env[i].suggestion
                        /\ Cardinality({j \in KeptIndices : j < i}) = k - 1

\* the spec's example: one LLM suggestion, two actions, the first planning the
\* same description and the second another one; two suggestions come back
C7_Witness ==
    /\ op = "SuggestActions"
    /\ Len(arg.Suggestions) = 1
    /\ Len(actions) = 2
    /\ PlannedRelevant(1) /\ PlannedRelevant(2)
    /\ env[1].suggestion.Description = arg.Suggestions[1].Description
    /\ env[2].suggestion.Description # arg.Suggestions[1].Description
    /\ Len(ret.result) = 2
    /\ ret.result[2] = env[2].suggestion

\* C8 as stated: no two suggestions of the returned list have the same
\* description, also when the LLM's own list has one description twice.
C8_NoDuplicates ==
    op = "SuggestActions"
        => \A k, l \in 1..Len(ret.result) :
              k # l => ret.result[k].Description # ret.result[l].Description

\* C8 amended: an action-planned suggestion of the returned list shares its
\* description with no other suggestion of the list; two suggestions with one
\* description are both taken from the diagnosis.
C8_NoActionDuplicates ==
    op = "SuggestActions"
        => \A k, l \in 1..Len(ret.result) :
              (k # l /\ l > Len(arg.Suggestions))
                  => ret.result[k].Description # ret.result[l].Description

\* two actions planned one description that the LLM did not suggest; it is in
\* the returned list once
C8_Witness ==
    /\ op = "SuggestActions"
    /\ Len(actions) = 2
    /\ PlannedRelevant(1) /\ PlannedRelevant(2)
    /\ env[1].suggestion.Description = env[2].suggestion.Description
    /\ env[1].suggestion.Description \notin DescriptionsOf(arg.Suggestions)
    /\ Len(ret.result) = Len(arg.Suggestions) + 1

\* C22: an action whose Plan returns an error has no suggestion in the
\* result, every action behind it is asked to plan, and SuggestActions
\* returns a nil error.
C22_PlanErrorContinues ==
    op = "SuggestActions"
        => /\ ret.err = NilErr
           /\ \A i \in 1..Len(actions) :
                 (PlanCalledAt(i) /\ env[i].kind = "err")
                     => /\ \A k \in 1..Len(ret.result) : ret.result[k].Source # actions[i].name
                           \/ \E j \in 1..Len(actions) : j # i /\ actions[j].name = actions[i].name
                        /\ \A j \in (i + 1)..Len(actions) : PlanCalledAt(j)

-----------------------------------------------------------------------------
(* SuggestActions on the memory of the Diagnosis *)

\* the content of an array slot that no slice has reached
Zero == [Description |-> "", ActionType |-> ActionTypeUnknown, Source |-> ""]

\* what a slice holds: a slice that shares the array of
\* diagnosisResult.Suggestions reads that array, another one its own array
SliceValue(array, slice) ==
    IF slice.shared THEN SubSeq(array, 1, slice.len) ELSE slice.own

\* append(combinedSuggestions, s): while the capacity of the shared array is
\* not used up the element is written into that array; otherwise the elements
\* are copied to a new array
AppendSlice(mem, s) ==
    IF ~mem.slice.shared
    THEN [mem EXCEPT !.slice.own = Append(@, s), !.slice.len = @ + 1]
    ELSE IF mem.slice.len < Len(mem.array)
    THEN [array |-> [mem.array EXCEPT ![mem.slice.len + 1] = s],
          slice |-> [mem.slice EXCEPT !.len = @ + 1]]
    ELSE [array |-> mem.array,
          slice |-> [shared |-> FALSE,
                     own |-> Append(SubSeq(mem.array, 1, mem.slice.len), s),
                     len |-> mem.slice.len + 1]]

\* the appends of the merge loop, one per suggestion that it keeps
RECURSIVE AppendEach(_, _, _)
AppendEach(mem, kept, j) ==
    IF j > Len(kept) THEN mem
    ELSE AppendEach(AppendSlice(mem, kept[j]), kept, j + 1)

\* the Diagnosis whose Suggestions are the first len elements of the array
DiagnosisOf(h) ==
    [RootCause |-> <<"root cause">>,
     Suggestions |-> SubSeq(h.array, 1, h.len),
     KnowledgeBaseHits |-> <<>>,
     LLMInteraction |-> <<>>,
     Error |-> <<>>]

\* combinedSuggestions := diagnosisResult.Suggestions, then the merge loop
MergeInMemory(h, result) ==
    AppendEach([array |-> h.array, slice |-> [shared |-> TRUE, own |-> <<>>, len |-> h.len]],
               SubSeq(result, h.len + 1, Len(result)), 1)

\* SuggestActions is called on the Diagnosis of heap; the caller keeps the
\* list that the first call returned
CallSuggestActionsShared ==
    /\ op = ""
    /\ \E outs \in PlanOutcomeLists :
           LET r == SuggestActions(DiagnosisOf(heap), outs)
               m == MergeInMemory(heap, r.result)
           IN  /\ op' = "SuggestActions"
               /\ arg' = DiagnosisOf(heap)
               /\ env' = outs
               /\ ret' = [result |-> r.result, err |-> r.err]
               /\ calls' = r.calls
               /\ heap' = [heap EXCEPT
                              !.array = m.array,
                              !.kept = IF heap.kept = <<>>
                                       THEN <<[slice |-> m.slice, value |-> r.result]>>
                                       ELSE @]
    /\ UNCHANGED <<config, loop, mu, threads>>

\* the Diagnoses in memory: a suggestion list and, behind it, the unused
\* capacity of its array
Heaps ==
    {[array |-> s \o [k \in 1..spare |-> Zero], len |-> Len(s), initial |-> s, kept |-> <<>>] :
        s \in SeqsUpTo(LLMSuggestions, MaxLLMSuggestions), spare \in 0..MaxSpare}

InitShared ==
    /\ enabled \in BOOLEAN
    /\ registry = <<>>
    /\ actions \in [1..1 -> EngineActions]
    /\ knowledgeBase = FALSE
    /\ dataCollectors = <<>>
    /\ analyzers = <<>>
    /\ analyzerRegistry = <<>>
    /\ op = "" /\ arg = <<>> /\ env = <<>> /\ ret = <<>> /\ calls = <<>>
    /\ pc = "idle" /\ ctxDone = FALSE /\ suggestions = <<>> /\ idx = 0 /\ executed = <<>>
    /\ tick = FALSE /\ passes = 0 /\ passCalls = <<>>
    /\ heap \in Heaps
    /\ mu = <<>> /\ threads = <<>>

NextShared == CallSuggestActionsShared \/ Return

SpecShared == InitShared /\ [][NextShared]_vars

\* C23: SuggestActions leaves the suggestion list of the Diagnosis as it
\* was, and the list that a call returned still holds what it held when it
\* was returned after later calls on the same Diagnosis.
C23_StageOutputsImmutable ==
    /\ DiagnosisOf(heap).Suggestions = heap.initial
    /\ heap.kept # <<>>
           => SliceValue(heap.array, heap.kept[1].slice) = heap.kept[1].value

-----------------------------------------------------------------------------
(* RunAnalysis *)

DataSourceTypeKubernetesAPI == "KubernetesAPI"
DataSourceTypeBusinessSDK == "BusinessSDK"
DataSourceTypeLog == "Log"

AnalysisStatusRunning == "running"
AnalysisStatusCompleted == "completed"

\* the data collectors of the repository
K8sDataCollector == [name |-> "kubernetes-collector", Type |-> DataSourceTypeKubernetesAPI]
BusinessDataCollector == [name |-> "business-data-collector", Type |-> DataSourceTypeBusinessSDK]
\* the collectors an engine is built with: those two and a second source of
\* type KubernetesAPI
DataCollectors == {K8sDataCollector, BusinessDataCollector,
                   [name |-> "kubernetes-events-collector", Type |-> DataSourceTypeKubernetesAPI]}

\* RequiredDataSources() of the analyzers of the repository
K8sPodAnalyzerRequired == <<DataSourceTypeKubernetesAPI, DataSourceTypeLog>>
BusinessLogAnalyzerRequired == <<DataSourceTypeBusinessSDK>>

\* the analyzers of the repository
K8sPodAnalyzer == [name |-> "kubernetes-pod-analyzer", required |-> K8sPodAnalyzerRequired]
BusinessLogAnalyzer == [name |-> "business-log-analyzer", required |-> BusinessLogAnalyzerRequired]

\* the analyzers an engine is built with: those two, one that requires a
\* single type and one that requires none
Analyzers == {K8sPodAnalyzer, BusinessLogAnalyzer,
              [name |-> "node-pressure", required |-> <<DataSourceTypeKubernetesAPI>>],
              [name |-> "heartbeat", required |-> <<>>]}

IssueNames == {"PodCrashLoopBackOff"}
Resources == {"", "Pod my-app-xyz default vcluster-a"}

\* the issue of a name that the analyzer at position i reports; ID tells the
\* issues of two analyzers apart
IssueOf(i, name) ==
    [ID |-> i, Name |-> name, Severity |-> "Error",
     Message |-> "container restarts repeatedly",
     Resource |-> "Pod my-app-xyz default vcluster-a"]

\* what a collector's Collect answers
CollectOutcomes == {"ok", "err"}

\* what an analyzer's Analyze answers, but for the issues' IDs: an error or
\* the names of the issues it reports
AnalyzeAnswers ==
    {[ok |-> FALSE, names |-> <<>>]} \cup [ok : {TRUE}, names : SeqsUpTo(IssueNames, MaxIssues)]

\* the answer a of the Analyze of the analyzer at i
AnalyzeOutcome(i, a) ==
    [ok |-> a.ok, issues |-> [k \in 1..Len(a.names) |-> IssueOf(i, a.names[k])]]

CollectCall(i) == [fn |-> "Collect", name |-> dataCollectors[i].name, at |-> i]
AnalyzeCall(i) == [fn |-> "Analyze", name |-> analyzers[i].name, at |-> i]

\* the data that the Collect of the collector at position i returns
Payload(i) == [source |-> dataCollectors[i].name, at |-> i]

\* m[key] = value on a Go map
MapPut(m, key, value) ==
    [k \in DOMAIN m \cup {key} |-> IF k = key THEN value ELSE m[k]]

RECURSIVE CollectLoop_KeepFirst(_, _, _)
CollectLoop_KeepFirst(i, outs, acc) ==
    IF i > Len(dataCollectors) THEN acc
    ELSE LET called == [acc EXCEPT !.calls = Append(@, CollectCall(i))] IN
         IF outs[i] = "err" \/ dataCollectors[i].Type \in DOMAIN acc.collectedData
         THEN CollectLoop_KeepFirst(i + 1, outs, called)
         ELSE CollectLoop_KeepFirst(i + 1, outs,
                  [called EXCEPT !.collectedData = MapPut(@, dataCollectors[i].Type, Payload(i))])

RECURSIVE CollectLoop_AbortOnFailure(_, _, _)
CollectLoop_AbortOnFailure(i, outs, acc) ==
    IF i > Len(dataCollectors) THEN acc
    ELSE LET called == [acc EXCEPT !.calls = Append(@, CollectCall(i))] IN
         IF outs[i] = "err" THEN called
         ELSE CollectLoop_AbortOnFailure(i + 1, outs,
                  [called EXCEPT !.collectedData = MapPut(@, dataCollectors[i].Type, Payload(i))])

RECURSIVE CollectLoop_RetryOnFailure(_, _, _)
CollectLoop_RetryOnFailure(i, outs, acc) ==
    IF i > Len(dataCollectors) THEN acc
    ELSE LET called == [acc EXCEPT !.calls = Append(@, CollectCall(i))] IN
         IF outs[i] = "err"
         THEN CollectLoop_RetryOnFailure(i + 1, outs,
                  [called EXCEPT !.calls = Append(@, CollectCall(i))])
         ELSE CollectLoop_RetryOnFailure(i + 1, outs,
                  [called EXCEPT !.collectedData = MapPut(@, dataCollectors[i].Type, Payload(i))])

\* the collection loop: collectedData and the Collect invocations
RECURSIVE CollectLoop(_, _, _)
CollectLoop(i, outs, acc) ==
    IF i > Len(dataCollectors) THEN acc
    ELSE LET called == [acc EXCEPT !.calls = Append(@, CollectCall(i))] IN
         IF outs[i] = "err" THEN CollectLoop(i + 1, outs, called)
         ELSE CollectLoop(i + 1, outs,
                  [called EXCEPT !.collectedData = MapPut(@, dataCollectors[i].Type, Payload(i))])

MissingData_AllMissing(required, collectedData) ==
    /\ Len(required) > 0
    /\ \A k \in 1..Len(required) : required[k] \notin DOMAIN collectedData

\* the loop over RequiredDataSources(), left at the first absent type
MissingData(required, collectedData) ==
    \E k \in 1..Len(required) : required[k] \notin DOMAIN collectedData

Skipped(name) == <<name, " (Skipped)">>
Failed(name) == <<name, " (Failed)">>
Completed(name) == <<name, " (Completed)">>

RECURSIVE AnalyzeLoop_StopOnFailure(_, _, _, _)
AnalyzeLoop_StopOnFailure(i, collectedData, outs, acc) ==
    IF i > Len(analyzers) THEN acc
    ELSE IF MissingData(analyzers[i].required, collectedData)
    THEN AnalyzeLoop_StopOnFailure(i + 1, collectedData, outs,
             [acc EXCEPT !.AnalyzersRun = Append(@, Skipped(analyzers[i].name))])
    ELSE LET called == [acc EXCEPT !.calls = Append(@, AnalyzeCall(i))] IN
         IF ~outs[i].ok
         THEN [called EXCEPT !.AnalyzersRun = Append(@, Failed(analyzers[i].name))]
         ELSE AnalyzeLoop_StopOnFailure(i + 1, collectedData, outs,
                  [called EXCEPT !.allIssues = @ \o outs[i].issues,
                                 !.AnalyzersRun = Append(@, Completed(analyzers[i].name))])

\* the loop over e.analyzers
RECURSIVE AnalyzeLoop(_, _, _, _)
AnalyzeLoop(i, collectedData, outs, acc) ==
    IF i > Len(analyzers) THEN acc
    ELSE IF MissingData(analyzers[i].required, collectedData)
    THEN AnalyzeLoop(i + 1, collectedData, outs,
             [acc EXCEPT !.AnalyzersRun = Append(@, Skipped(analyzers[i].name))])
    ELSE LET called == [acc EXCEPT !.calls = Append(@, AnalyzeCall(i))] IN
         IF ~outs[i].ok
         THEN AnalyzeLoop(i + 1, collectedData, outs,
                  [called EXCEPT !.AnalyzersRun = Append(@, Failed(analyzers[i].name))])
         ELSE AnalyzeLoop(i + 1, collectedData, outs,
                  [called EXCEPT !.allIssues = @ \o outs[i].issues,
                                 !.AnalyzersRun = Append(@, Completed(analyzers[i].name))])

\* SREAgentEngine.RunAnalysis when the collectors answer collectOuts and the
\* analyzers analyzeOuts
RunAnalysis(collectOuts, analyzeOuts) ==
    LET collected == CollectLoop(1, collectOuts, [collectedData |-> <<>>, calls |-> <<>>])
        analyzed == AnalyzeLoop(1, collected.collectedData, analyzeOuts,
                                [allIssues |-> <<>>, AnalyzersRun |-> <<>>,
                                 calls |-> collected.calls])
    IN  [result |-> [Status |-> AnalysisStatusCompleted,
                     Issues |-> analyzed.allIssues,
                     AnalyzersRun |-> analyzed.AnalyzersRun],
         err |-> NilErr,
         calls |-> analyzed.calls]

ResultWrites_StatusFirst(collectOuts, analyzeOuts) ==
    LET collected == CollectLoop(1, collectOuts, [collectedData |-> <<>>, calls |-> <<>>])
        analyzed == AnalyzeLoop(1, collected.collectedData, analyzeOuts,
                                [allIssues |-> <<>>, AnalyzersRun |-> <<>>, calls |-> <<>>])
        done == [Status |-> AnalysisStatusCompleted, Issues |-> <<>>, AnalyzersRun |-> <<>>]
    IN  <<[done EXCEPT !.Status = AnalysisStatusRunning], done>>
            \o [k \in 1..Len(analyzed.AnalyzersRun) |->
                   [done EXCEPT !.AnalyzersRun = SubSeq(analyzed.AnalyzersRun, 1, k)]]
            \o <<[done EXCEPT !.AnalyzersRun = analyzed.AnalyzersRun,
                              !.Issues = analyzed.allIssues]>>

\* the values that the result object of a RunAnalysis call holds, one after
\* the other: as created, after each append to AnalyzersRun, after the
\* assignment of Issues and after the assignment of Status
ResultWrites(collectOuts, analyzeOuts) ==
    LET collected == CollectLoop(1, collectOuts, [collectedData |-> <<>>, calls |-> <<>>])
        analyzed == AnalyzeLoop(1, collected.collectedData, analyzeOuts,
                                [allIssues |-> <<>>, AnalyzersRun |-> <<>>, calls |-> <<>>])
        created == [Status |-> AnalysisStatusRunning, Issues |-> <<>>, AnalyzersRun |-> <<>>]
        audited == [created EXCEPT !.AnalyzersRun = analyzed.AnalyzersRun]
        issued == [audited EXCEPT !.Issues = analyzed.allIssues]
    IN  <<created>>
            \o [k \in 1..Len(analyzed.AnalyzersRun) |->
                   [created EXCEPT !.AnalyzersRun = SubSeq(analyzed.AnalyzersRun, 1, k)]]
            \o <<issued, [issued EXCEPT !.Status = AnalysisStatusCompleted]>>

AnalyzeOutcomeLists ==
    {[i \in 1..Len(analyzers) |-> AnalyzeOutcome(i, a[i])] :
        a \in [1..Len(analyzers) -> AnalyzeAnswers]}

CallRunAnalysis ==
    /\ op = ""
    /\ \E collectOuts \in [1..Len(dataCollectors) -> CollectOutcomes],
          analyzeOuts \in AnalyzeOutcomeLists :
           LET r == RunAnalysis(collectOuts, analyzeOuts) IN
           /\ op' = "RunAnalysis"
           /\ arg' = <<>>
           /\ env' = [collect |-> collectOuts, analyze |-> analyzeOuts, cancelled |-> FALSE]
           /\ ret' = [result |-> r.result, err |-> r.err]
           /\ calls' = r.calls
           /\ UNCHANGED <<config, memory, loop>>

\* the collector lists an engine is built with: taken from the registry,
\* which holds a collector once
CollectorLists ==
    {s \in SeqsUpTo(DataCollectors, MaxCollectors) :
        \A i, j \in 1..Len(s) : s[i] = s[j] => i = j}

InitAnalysis ==
    /\ enabled = FALSE
    /\ registry = <<>>
    /\ actions = <<>>
    /\ knowledgeBase = FALSE
    /\ dataCollectors \in CollectorLists
    /\ analyzers \in SeqsUpTo(Analyzers, MaxAnalyzers)
    /\ op = "" /\ arg = <<>> /\ env = <<>> /\ ret = <<>> /\ calls = <<>>
    /\ analyzerRegistry = <<>>
    /\ pc = "idle" /\ ctxDone = FALSE /\ suggestions = <<>> /\ idx = 0 /\ executed = <<>>
    /\ tick = FALSE /\ passes = 0 /\ passCalls = <<>>
    /\ heap = <<>> /\ mu = <<>> /\ threads = <<>>

NextAnalysis == CallRunAnalysis \/ Return

SpecAnalysis == InitAnalysis /\ [][NextAnalysis]_vars

-----------------------------------------------------------------------------
(* Properties of RunAnalysis *)

\* the source types of the collectors whose Collect succeeded
CollectedTypes ==
    {dataCollectors[i].Type : i \in {j \in 1..Len(dataCollectors) : env.collect[j] = "ok"}}

RequiredTypes(i) == {analyzers[i].required[k] : k \in 1..Len(analyzers[i].required)}

AnalyzeCalledAt(i) == \E k \in 1..Len(calls) : calls[k].fn = "Analyze" /\ calls[k].at = i

\* C10: a detector with a required source type that was not successfully
\* collected is not invoked, its audit entry is its name followed by
\* " (Skipped)" and no issue of the result is its; a detector with every
\* required type present is invoked.
C10_SkipOnMissingData ==
    op = "RunAnalysis"
        => /\ Len(ret.result.AnalyzersRun) = Len(analyzers)
           /\ \A i \in 1..Len(analyzers) :
                 IF RequiredTypes(i) \subseteq CollectedTypes
                 THEN /\ AnalyzeCalledAt(i)
                      /\ ret.result.AnalyzersRun[i][2] # " (Skipped)"
                 ELSE /\ ~AnalyzeCalledAt(i)
                      /\ ret.result.AnalyzersRun[i] = <<analyzers[i].name, " (Skipped)">>
                      /\ \A k \in 1..Len(ret.result.Issues) : ret.result.Issues[k].ID # i

\* a detector whose first required type was collected and whose second was
\* not was skipped, in a pass in which another detector reported an issue
C10_Witness ==
    /\ op = "RunAnalysis"
    /\ Len(analyzers) = 2
    /\ analyzers[1].required = K8sPodAnalyzerRequired
    /\ DataSourceTypeKubernetesAPI \in CollectedTypes
    /\ env.analyze[1].ok /\ env.analyze[1].issues # <<>>
    /\ ret.result.AnalyzersRun[1] = <<analyzers[1].name, " (Skipped)">>
    /\ ret.result.AnalyzersRun[2][2] = " (Completed)"
    /\ Len(ret.result.Issues) = 1

\* the keys of collectedData after the collection loop
CollectedData ==
    DOMAIN CollectLoop(1, env.collect, [collectedData |-> <<>>, calls |-> <<>>]).collectedData

\* the issues of the result that the analyzer at position i reported
IssuesFrom(i) == {k \in 1..Len(ret.result.Issues) : ret.result.Issues[k].ID = i}

\* C11: a detector whose Analyze returns an error gets the audit entry of its
\* name followed by " (Failed)" and no issue of the result is its; every
\* detector, also one behind a failed one, has its audit entry and is invoked
\* when its data is there; a completed one has all its issues in the result;
\* and RunAnalysis returns status completed and a nil error whatever the
\* detectors' outcomes are.
C11_FailedDetectorContinues ==
    op = "RunAnalysis"
        => /\ ret.err = NilErr
           /\ ret.result.Status = AnalysisStatusCompleted
           /\ Len(ret.result.AnalyzersRun) = Len(analyzers)
           /\ \A i \in 1..Len(analyzers) :
                 /\ (RequiredTypes(i) \subseteq CollectedTypes) => AnalyzeCalledAt(i)
                 /\ (AnalyzeCalledAt(i) /\ ~env.analyze[i].ok)
                        => /\ ret.result.AnalyzersRun[i] = <<analyzers[i].name, " (Failed)">>
                           /\ IssuesFrom(i) = {}
                 /\ (AnalyzeCalledAt(i) /\ env.analyze[i].ok)
                        => /\ ret.result.AnalyzersRun[i] = <<analyzers[i].name, " (Completed)">>
                           /\ Cardinality(IssuesFrom(i)) = Len(env.analyze[i].issues)

\* the first detector failed and the second, behind it, completed with an issue
C11_Witness ==
    /\ op = "RunAnalysis"
    /\ Len(analyzers) = 2
    /\ AnalyzeCalledAt(1) /\ ~env.analyze[1].ok
    /\ ret.result.AnalyzersRun[1][2] = " (Failed)"
    /\ AnalyzeCalledAt(2) /\ env.analyze[2].ok
    /\ ret.result.AnalyzersRun[2][2] = " (Completed)"
    /\ Len(ret.result.Issues) = 1 /\ ret.result.Issues[1].ID = 2
    /\ ret.result.Status = AnalysisStatusCompleted /\ ret.err = NilErr

\* C12: the collection stage invokes Collect on every collector of
\* e.dataCollectors, in order and before any detector; collectedData holds an
\* entry for exactly the types of the collectors whose Collect succeeded, so
\* a failed one leaves none of its own; and the detection stage runs over
\* every detector whatever the collectors answered.
C12_CollectionFailureTolerated ==
    op = "RunAnalysis"
        => /\ Len(calls) >= Len(dataCollectors)
           /\ \A i \in 1..Len(dataCollectors) : calls[i] = CollectCall(i)
           /\ \A k \in 1..Len(calls) : k > Len(dataCollectors) => calls[k].fn = "Analyze"
           /\ CollectedData = CollectedTypes
           /\ Len(ret.result.AnalyzersRun) = Len(analyzers)
           /\ ret.result.Status = AnalysisStatusCompleted /\ ret.err = NilErr

\* the first collector failed, the second, of another type, succeeded, and a
\* detector that requires the second's type was invoked
C12_Witness ==
    /\ op = "RunAnalysis"
    /\ Len(dataCollectors) = 2
    /\ env.collect[1] = "err" /\ env.collect[2] = "ok"
    /\ dataCollectors[1].Type # dataCollectors[2].Type
    /\ dataCollectors[1].Type \notin CollectedData
    /\ dataCollectors[2].Type \in CollectedData
    /\ \E i \in 1..Len(analyzers) :
          /\ analyzers[i].required = <<dataCollectors[2].Type>>
          /\ AnalyzeCalledAt(i)

AnalysisStatusPending == "pending"
AnalysisStatusFailed == "failed"
AnalysisStatusSkipped == "skipped"

TerminalStatuses == {AnalysisStatusCompleted, AnalysisStatusFailed, AnalysisStatusSkipped}

\* the position of a status on the way pending, running, terminal
StatusRank(status) ==
    IF status = AnalysisStatusPending THEN 0
    ELSE IF status = AnalysisStatusRunning THEN 1
    ELSE 2

\* C24: the status of the result object of a RunAnalysis call only moves
\* forward on pending, running, terminal and stays one of the five statuses;
\* once it is terminal the object is not written again; and what the caller
\* gets is the object's last value, with a terminal status.
C24_StatusLifecycle ==
    op = "RunAnalysis"
        => LET w == ResultWrites(env.collect, env.analyze) IN
           /\ \A k \in 1..Len(w) :
                 w[k].Status \in {AnalysisStatusPending, AnalysisStatusRunning} \cup TerminalStatuses
           /\ \A k \in 1..(Len(w) - 1) :
                 /\ StatusRank(w[k].Status) <= StatusRank(w[k + 1].Status)
                 /\ w[k].Status \in TerminalStatuses => w[k + 1] = w[k]
           /\ w[Len(w)] = ret.result
           /\ ret.result.Status \in TerminalStatuses

\* a call that wrote two audit entries and an issue while running and then
\* became completed
C24_Witness ==
    /\ op = "RunAnalysis"
    /\ LET w == ResultWrites(env.collect, env.analyze) IN
       /\ Len(w) = 5
       /\ w[3].Status = AnalysisStatusRunning /\ Len(w[3].AnalyzersRun) = 2
       /\ w[4].Status = AnalysisStatusRunning /\ Len(w[4].Issues) = 1
       /\ w[5].Status = AnalysisStatusCompleted /\ w[5] = ret.result

\* C29: in one RunAnalysis call no detector is invoked twice and no detector
\* has two audit entries, whatever list GetEnabledAnalyzers gave the engine.
C29_DetectorOncePerPass ==
    op = "RunAnalysis"
        => /\ \A k, l \in 1..Len(calls) :
                 (calls[k].fn = "Analyze" /\ calls[l].fn = "Analyze"
                      /\ calls[k].name = calls[l].name) => k = l
           /\ \A i, j \in 1..Len(ret.result.AnalyzersRun) :
                 ret.result.AnalyzersRun[i][1] = ret.result.AnalyzersRun[j][1] => i = j

\* collectedData after the collection loop
CollectedPayloads ==
    CollectLoop(1, env.collect, [collectedData |-> <<>>, calls |-> <<>>]).collectedData

\* the positions of the collectors of a type whose Collect succeeded
Succeeded(type) ==
    {i \in 1..Len(dataCollectors) : dataCollectors[i].Type = type /\ env.collect[i] = "ok"}

\* C30: after the collection loop collectedData has an entry for a source
\* type exactly when the Collect of at least one collector of that type
\* succeeded, and the entry is the data of the last such collector of
\* e.dataCollectors; a detector all of whose required types have an entry is
\* invoked, also when another collector of such a type failed.
C30_KeyedByType ==
    op = "RunAnalysis"
        => /\ \A type \in {DataSourceTypeKubernetesAPI, DataSourceTypeBusinessSDK, DataSourceTypeLog} :
                 /\ type \in DOMAIN CollectedPayloads <=> Succeeded(type) # {}
                 /\ Succeeded(type) # {}
                        => /\ CollectedPayloads[type].at \in Succeeded(type)
                           /\ \A i \in Succeeded(type) : i <= CollectedPayloads[type].at
                           /\ CollectedPayloads[type] = Payload(CollectedPayloads[type].at)
           /\ \A i \in 1..Len(analyzers) :
                 (\A k \in 1..Len(analyzers[i].required) :
                      Succeeded(analyzers[i].required[k]) # {})
                     => /\ AnalyzeCalledAt(i)
                        /\ ret.result.AnalyzersRun[i][2] # " (Skipped)"

\* two sources of one type and of different names both succeeded: the entry
\* is the second's data, and a detector that requires the type was invoked
C30_Witness ==
    /\ op = "RunAnalysis"
    /\ Len(dataCollectors) = 2
    /\ dataCollectors[1].Type = DataSourceTypeKubernetesAPI
    /\ dataCollectors[2].Type = DataSourceTypeKubernetesAPI
    /\ dataCollectors[1].name # dataCollectors[2].name
    /\ env.collect[1] = "ok" /\ env.collect[2] = "ok"
    /\ CollectedPayloads[DataSourceTypeKubernetesAPI] = Payload(2)
    /\ \E i \in 1..Len(analyzers) :
          /\ analyzers[i].required = <<DataSourceTypeKubernetesAPI>>
          /\ AnalyzeCalledAt(i)

\* the first source of a type failed and the second, of the same type,
\* succeeded: the detector that requires the type was invoked
C30_WitnessOneFailed ==
    /\ op = "RunAnalysis"
    /\ Len(dataCollectors) = 2
    /\ dataCollectors[1].Type = dataCollectors[2].Type
    /\ env.collect[1] = "err" /\ env.collect[2] = "ok"
    /\ \E i \in 1..Len(analyzers) :
          /\ analyzers[i].required = <<dataCollectors[1].Type>>
          /\ AnalyzeCalledAt(i)
          /\ ret.result.AnalyzersRun[i][2] = " (Completed)"

-----------------------------------------------------------------------------
(* RunDiagnosis *)

KnowledgeBaseHit == [Source |-> "runbook", Content |-> "restart the pod", Score |-> "0.90"]

\* what the knowledge base's Retrieve answers: an error or none, and a list
\* of hits
RetrieveOutcomes == [ok : BOOLEAN, hits : {<<>>, <<KnowledgeBaseHit>>}]

Responses == {<<>>, <<"Root Cause: ...", "\n", "Suggestions:", "\n", "1. Restart the pod">>}

\* what the LLM's GenerateText answers: an error or a response text
GenerateOutcomes == {[ok |-> FALSE, text |-> <<>>]} \cup [ok : {TRUE}, text : Responses]

\* the value of the identifier diagnosisErr, which RunDiagnosis returns on an
\* LLM error and which nothing in the package declares or assigns
DiagnosisErrValues == {NilErr, New(ErrorCodeLLMProviderError, "LLM diagnosis failed")}

RECURSIVE IssueBlocks(_, _)
IssueBlocks(issues, i) ==
    IF i > Len(issues) THEN <<>>
    ELSE <<"Issue ", ToString(i), ":\n",
           "  Name: ", issues[i].Name, "\n",
           "  Severity: ", issues[i].Severity, "\n",
           "  Message: ", issues[i].Message, "\n">>
         \o (IF issues[i].Resource # "" THEN <<"  Resource: ", issues[i].Resource, "\n">> ELSE <<>>)
         \o <<"\n">>
         \o IssueBlocks(issues, i + 1)

RECURSIVE HitBlocks(_, _)
HitBlocks(hits, i) ==
    IF i > Len(hits) THEN <<>>
    ELSE <<"Source: ", hits[i].Source, " (Score: ", hits[i].Score, ")\n", hits[i].Content, "\n\n">>
         \o HitBlocks(hits, i + 1)

PromptPreamble ==
    <<"You are an AI SRE agent assisting with troubleshooting Kubernetes issues in a multi-tenant vcluster environment.\n",
      "Analyze the following issues detected in the cluster:\n\n">>

PromptKnowledgeHeader == "Relevant knowledge from SRE Knowledge Base:\n\n"

PromptInstructions ==
    <<"Based on the issues and relevant knowledge, provide:\n",
      "1. A concise root cause analysis.\n",
      "2. Suggested remediation steps.\n",
      "Please provide the root cause analysis as a paragraph and the suggestions as a numbered list.\n">>

parseLLMDiagnosisResponse_DropsRaw(response) ==
    [rootCause |-> <<"Parsing logic not yet implemented.">>,
     suggestions |-> <<"Parsing failed, cannot extract suggestions from raw response.">>,
     err |-> NilErr]

\* the placeholder parser: never fails, one fixed suggestion
parseLLMDiagnosisResponse(response) ==
    [rootCause |-> <<"Parsing logic not yet implemented. Raw LLM response:\n">> \o response,
     suggestions |-> <<"Parsing failed, cannot extract suggestions from raw response.">>,
     err |-> NilErr]

RECURSIVE ConvertSuggestions_AsAnswered(_, _)
ConvertSuggestions_AsAnswered(parsed, i) ==
    IF i > Len(parsed) THEN <<>>
    ELSE <<[Description |-> parsed[i], ActionType |-> ActionTypeAutomated, Source |-> "LLM"]>>
         \o ConvertSuggestions_AsAnswered(parsed, i + 1)

RECURSIVE ConvertSuggestions(_, _)
ConvertSuggestions(parsed, i) ==
    IF i > Len(parsed) THEN <<>>
    ELSE <<[Description |-> parsed[i], ActionType |-> ActionTypeSuggestion, Source |-> "LLM"]>>
         \o ConvertSuggestions(parsed, i + 1)

ErrorString(err) == <<err.Code, err.Message, err.Wrapped>>

RetrievedHits_DespiteError(kbOut) == IF knowledgeBase THEN kbOut.hits ELSE <<>>

\* the hits that reach the Diagnosis and the prompt: those of a Retrieve
\* without error on an engine that has a knowledge base
RetrievedHits(kbOut) == IF knowledgeBase /\ kbOut.ok THEN kbOut.hits ELSE <<>>

LLMFailedDiagnosis_NoError(hits, interaction) ==
    [RootCause |-> <<"Failed to perform diagnosis due to LLM error.">>,
     Suggestions |-> <<>>,
     KnowledgeBaseHits |-> hits,
     LLMInteraction |-> interaction,
     Error |-> <<>>]

\* the Diagnosis of the branch taken on a GenerateText error
LLMFailedDiagnosis(hits, interaction) ==
    [RootCause |-> <<"Failed to perform diagnosis due to LLM error.">>,
     Suggestions |-> <<>>,
     KnowledgeBaseHits |-> hits,
     LLMInteraction |-> interaction,
     Error |-> ErrorString(Wrap(ErrorCodeLLMProviderError, "LLM diagnosis failed", "llm error"))]

\* RunDiagnosis below the check for an empty issue list
Diagnose(analysisResult, kbOut, llmOut, diagnosisErr) ==
    LET hits == RetrievedHits(kbOut)
        finalPrompt ==
            PromptPreamble
            \o IssueBlocks(analysisResult.Issues, 1)
            \o (IF Len(hits) > 0 THEN <<PromptKnowledgeHeader>> \o HitBlocks(hits, 1) ELSE <<>>)
            \o PromptInstructions
        made == (IF knowledgeBase THEN <<[fn |-> "Retrieve"]>> ELSE <<>>)
                    \o <<[fn |-> "GenerateText", prompt |-> finalPrompt]>>
        interaction == <<[Prompt |-> finalPrompt, Response |-> llmOut.text]>>
        parsed == parseLLMDiagnosisResponse(llmOut.text)
    IN  IF ~llmOut.ok
        THEN [result |-> LLMFailedDiagnosis(hits, interaction),
              err |-> diagnosisErr,
              calls |-> made]
        ELSE IF parsed.err # NilErr
        THEN [result |-> [RootCause |-> <<"LLM response received but parsing failed: ">> \o llmOut.text,
                          Suggestions |-> <<>>,
                          KnowledgeBaseHits |-> hits,
                          LLMInteraction |-> interaction,
                          Error |-> ErrorString(Wrap(ErrorCodeUnknown,
                                                     "Failed to parse LLM response",
                                                     parsed.err.Message))],
              err |-> NilErr,
              calls |-> made]
        ELSE [result |-> [RootCause |-> parsed.rootCause,
                          Suggestions |-> ConvertSuggestions(parsed.suggestions, 1),
                          KnowledgeBaseHits |-> hits,
                          LLMInteraction |-> interaction,
                          Error |-> <<>>],
              err |-> NilErr,
              calls |-> made]

RunDiagnosis_NoShortCircuit(analysisResult, kbOut, llmOut, diagnosisErr) ==
    Diagnose(analysisResult, kbOut, llmOut, diagnosisErr)

\* SREAgentEngine.RunDiagnosis when Retrieve answers kbOut and GenerateText llmOut
RunDiagnosis(analysisResult, kbOut, llmOut, diagnosisErr) ==
    IF Len(analysisResult.Issues) = 0
    THEN [result |-> [RootCause |-> <<"No issues detected.">>,
                      Suggestions |-> <<>>,
                      KnowledgeBaseHits |-> <<>>,
                      LLMInteraction |-> <<>>,
                      Error |-> <<>>],
          err |-> NilErr,
          calls |-> <<>>]
    ELSE Diagnose(analysisResult, kbOut, llmOut, diagnosisErr)

Issues == [ID : {1}, Name : IssueNames, Severity : {"Error"},
           Message : {"container restarts repeatedly"}, Resource : Resources]

\* the Analysis Results RunDiagnosis is called with
AnalysisResults ==
    [Status : {AnalysisStatusCompleted},
     Issues : SeqsUpTo(Issues, MaxDiagnosedIssues),
     AnalyzersRun : {<<>>}]

CallRunDiagnosis ==
    /\ op = ""
    /\ \E a \in AnalysisResults, kbOut \in RetrieveOutcomes, llmOut \in GenerateOutcomes,
          diagnosisErr \in DiagnosisErrValues :
           LET r == RunDiagnosis(a, kbOut, llmOut, diagnosisErr) IN
           /\ op' = "RunDiagnosis"
           /\ arg' = a
           /\ env' = [kb |-> kbOut, llm |-> llmOut, diagnosisErr |-> diagnosisErr]
           /\ ret' = [result |-> r.result, err |-> r.err]
           /\ calls' = r.calls
           /\ UNCHANGED <<config, memory, loop>>

InitDiagnosis ==
    /\ enabled = FALSE
    /\ registry = <<>>
    /\ actions = <<>>
    /\ knowledgeBase \in BOOLEAN
    /\ dataCollectors = <<>>
    /\ analyzers = <<>>
    /\ op = "" /\ arg = <<>> /\ env = <<>> /\ ret = <<>> /\ calls = <<>>
    /\ analyzerRegistry = <<>>
    /\ pc = "idle" /\ ctxDone = FALSE /\ suggestions = <<>> /\ idx = 0 /\ executed = <<>>
    /\ tick = FALSE /\ passes = 0 /\ passCalls = <<>>
    /\ heap = <<>> /\ mu = <<>> /\ threads = <<>>

NextDiagnosis == CallRunDiagnosis \/ Return

SpecDiagnosis == InitDiagnosis /\ [][NextDiagnosis]_vars

-----------------------------------------------------------------------------
(* Properties of RunDiagnosis *)

\* C9: for an Analysis Result with no issue RunDiagnosis returns the root
\* cause "No issues detected.", no suggestion, no LLM interaction and a nil
\* error, and invokes neither Retrieve nor GenerateText.
C9_NoIssuesShortCircuit ==
    (op = "RunDiagnosis" /\ arg.Issues = <<>>)
        => /\ ret.result.RootCause = <<"No issues detected.">>
           /\ ret.result.Suggestions = <<>>
           /\ ret.result.LLMInteraction = <<>>
           /\ ret.err = NilErr
           /\ \A k \in 1..Len(calls) : calls[k].fn \notin {"Retrieve", "GenerateText"}

\* an empty Analysis Result was diagnosed by an engine that has a knowledge
\* base and whose LLM would have answered
C9_Witness ==
    /\ op = "RunDiagnosis"
    /\ arg.Issues = <<>>
    /\ knowledgeBase
    /\ env.kb.ok /\ env.kb.hits # <<>>
    /\ env.llm.ok /\ env.llm.text # <<>>
    /\ ret.result.KnowledgeBaseHits = <<>>

\* the prompt handed to GenerateText in the call
PromptSent == {calls[k].prompt : k \in {j \in 1..Len(calls) : calls[j].fn = "GenerateText"}}

Contains(text, token) == \E k \in 1..Len(text) : text[k] = token

EndsWith(text, suffix) ==
    /\ Len(text) >= Len(suffix)
    /\ SubSeq(text, Len(text) - Len(suffix) + 1, Len(text)) = suffix

\* C15: when GenerateText returns an error for an Analysis Result with an
\* issue, the Diagnosis RunDiagnosis returns has its Error field set, the
\* root cause "Failed to perform diagnosis due to LLM error." and no
\* suggestion, whatever the error value returned next to it is.
C15_LLMErrorDiagnosis ==
    (op = "RunDiagnosis" /\ Len(arg.Issues) > 0 /\ ~env.llm.ok)
        => /\ ret.result.Error # <<>>
           /\ ret.result.RootCause = <<"Failed to perform diagnosis due to LLM error.">>
           /\ ret.result.Suggestions = <<>>
           /\ Len(ret.result.LLMInteraction) = 1

\* GenerateText failed on a prompt that held an issue and a knowledge hit
C15_Witness ==
    /\ op = "RunDiagnosis"
    /\ Len(arg.Issues) > 0
    /\ ~env.llm.ok
    /\ knowledgeBase /\ env.kb.ok /\ env.kb.hits # <<>>
    /\ ret.result.KnowledgeBaseHits # <<>>
    /\ ret.result.Error # <<>>

\* C16: the parser extracts nothing from an answer; the Diagnosis of every
\* answered call keeps the raw answer, whole, at the end of its root cause
\* and in its LLM interaction, and its only suggestion is the marker
\* "Parsing failed, cannot extract suggestions from raw response.".
C16_RawAnswerKept ==
    (op = "RunDiagnosis" /\ Len(arg.Issues) > 0 /\ env.llm.ok)
        => /\ EndsWith(ret.result.RootCause, env.llm.text)
           /\ Len(ret.result.RootCause) > Len(env.llm.text)
           /\ ret.result.LLMInteraction[1].Response = env.llm.text
           /\ Len(ret.result.Suggestions) = 1
           /\ ret.result.Suggestions[1].Description
                  = "Parsing failed, cannot extract suggestions from raw response."

\* an answer with text was received and is in the root cause
C16_Witness ==
    /\ op = "RunDiagnosis"
    /\ Len(arg.Issues) > 0
    /\ env.llm.ok /\ env.llm.text # <<>>
    /\ Contains(ret.result.RootCause, "1. Restart the pod")
    /\ Len(ret.result.Suggestions) = 1

\* the call as it goes when Retrieve answers no hit and no error
NoHitsRun == RunDiagnosis(arg, [ok |-> TRUE, hits |-> <<>>], env.llm, env.diagnosisErr)

\* C17: when Retrieve returns an error RunDiagnosis goes on: the Diagnosis
\* has no knowledge hit, the prompt has no knowledge section, and the
\* invocations and the Diagnosis are those of a Retrieve that finds nothing.
C17_RetrieveErrorTolerated ==
    (op = "RunDiagnosis" /\ Len(arg.Issues) > 0 /\ knowledgeBase /\ ~env.kb.ok)
        => /\ ret.result.KnowledgeBaseHits = <<>>
           /\ Cardinality(PromptSent) = 1
           /\ \A prompt \in PromptSent :
                 /\ ~Contains(prompt, PromptKnowledgeHeader)
                 /\ prompt = PromptPreamble \o IssueBlocks(arg.Issues, 1) \o PromptInstructions
           /\ calls = NoHitsRun.calls
           /\ ret.result = NoHitsRun.result

\* Retrieve returned an error next to a hit, and the LLM answered
C17_Witness ==
    /\ op = "RunDiagnosis"
    /\ Len(arg.Issues) > 0
    /\ knowledgeBase
    /\ ~env.kb.ok /\ env.kb.hits # <<>>
    /\ env.llm.ok /\ env.llm.text # <<>>
    /\ ret.result.KnowledgeBaseHits = <<>>
    /\ Len(calls) = 2

RestartResponse == <<"Root Cause: ...", "\n", "Suggestions:", "\n", "1. Restart the pod">>

\* the texts of the model in which "restart" occurs, in whatever letter case
MentionsRestart(description) ==
    description \in {"1. Restart the pod", "Restart the pod", "restart the pod",
                     "Restart pod X"}

\* C18: for an Analysis Result with the one issue "PodCrashLoopBackOff" the
\* prompt sent holds that name, and on the answer
\* "Root Cause: ...\nSuggestions:\n1. Restart the pod" the Diagnosis has a
\* root cause and a suggestion whose description mentions "restart".
C18_RestartSuggested ==
    (/\ op = "RunDiagnosis"
     /\ Len(arg.Issues) = 1
     /\ arg.Issues[1].Name = "PodCrashLoopBackOff"
     /\ env.llm.ok
     /\ env.llm.text = RestartResponse)
        => /\ \A prompt \in PromptSent : Contains(prompt, "PodCrashLoopBackOff")
           /\ ret.result.RootCause # <<>>
           /\ \E k \in 1..Len(ret.result.Suggestions) :
                 MentionsRestart(ret.result.Suggestions[k].Description)

-----------------------------------------------------------------------------
(* The registries *)

AnalyzerNames == {K8sPodAnalyzer.name, BusinessLogAnalyzer.name, "restart_pod"}

\* the instances passed to RegisterAnalyzer: the two analyzers of the
\* repository, a second instance under the name of the first, and one under
\* the name of an action
RegistrableAnalyzers ==
    {K8sPodAnalyzer, BusinessLogAnalyzer,
     [name |-> K8sPodAnalyzer.name, required |-> <<>>],
     [name |-> "restart_pod", required |-> <<>>]}

RegisterAnalyzer(analyzer) ==
    IF analyzer.name \in DOMAIN analyzerRegistry
    THEN [panic |-> TRUE, analyzers |-> analyzerRegistry]
    ELSE [panic |-> FALSE,
          analyzers |-> [n \in DOMAIN analyzerRegistry \cup {analyzer.name} |->
                            IF n = analyzer.name THEN analyzer ELSE analyzerRegistry[n]]]

RegisterAction_Overwrite(action) ==
    [panic |-> FALSE,
     actions |-> [n \in DOMAIN registry \cup {action.name} |->
                     IF n = action.name THEN action.Type ELSE registry[n]]]

RegisterAction(action) ==
    IF action.name \in DOMAIN registry
    THEN [panic |-> TRUE, actions |-> registry]
    ELSE [panic |-> FALSE,
          actions |-> [n \in DOMAIN registry \cup {action.name} |->
                          IF n = action.name THEN action.Type ELSE registry[n]]]

RECURSIVE ResolveEnabled_SkipUnknown(_, _, _)
ResolveEnabled_SkipUnknown(enabledAnalyzers, i, acc) ==
    IF i > Len(enabledAnalyzers) THEN [result |-> acc, err |-> NilErr]
    ELSE IF enabledAnalyzers[i] \notin DOMAIN analyzerRegistry
    THEN ResolveEnabled_SkipUnknown(enabledAnalyzers, i + 1, acc)
    ELSE ResolveEnabled_SkipUnknown(enabledAnalyzers, i + 1,
                                    Append(acc, analyzerRegistry[enabledAnalyzers[i]]))

\* the loop over cfg.EnabledAnalyzers
RECURSIVE ResolveEnabled(_, _, _)
ResolveEnabled(enabledAnalyzers, i, acc) ==
    IF i > Len(enabledAnalyzers) THEN [result |-> acc, err |-> NilErr]
    ELSE IF enabledAnalyzers[i] \notin DOMAIN analyzerRegistry
    THEN [result |-> <<>>, err |-> New(ErrorCodeInvalidInput, "analyzer not found")]
    ELSE ResolveEnabled(enabledAnalyzers, i + 1,
                        Append(acc, analyzerRegistry[enabledAnalyzers[i]]))

\* the orders in which a range over the map may visit the registered names
IterationOrders ==
    {f \in [1..Cardinality(DOMAIN analyzerRegistry) -> DOMAIN analyzerRegistry] :
        \A i, j \in DOMAIN f : f[i] = f[j] => i = j}

\* GetEnabledAnalyzers(cfg) when a range over the map visits the names in
\* the order iteration
GetEnabledAnalyzers(enabledAnalyzers, iteration) ==
    IF Len(enabledAnalyzers) = 0
    THEN [result |-> [i \in 1..Len(iteration) |-> analyzerRegistry[iteration[i]]],
          err |-> NilErr]
    ELSE ResolveEnabled(enabledAnalyzers, 1, <<>>)

CallRegisterAnalyzer ==
    /\ op = ""
    /\ pc = "idle"
    /\ \E analyzer \in RegistrableAnalyzers :
           LET r == RegisterAnalyzer(analyzer) IN
           /\ op' = "RegisterAnalyzer"
           /\ arg' = analyzer
           /\ env' = [analyzers |-> analyzerRegistry, actions |-> registry]
           /\ ret' = [panic |-> r.panic]
           /\ calls' = <<>>
           /\ analyzerRegistry' = r.analyzers
           /\ pc' = IF r.panic THEN "panicked" ELSE pc
    /\ UNCHANGED <<memory, passCalls>>
    /\ UNCHANGED <<enabled, registry, actions, knowledgeBase, dataCollectors, analyzers,
                   ctxDone, suggestions, idx, executed, tick, passes>>

CallRegisterAction ==
    /\ op = ""
    /\ pc = "idle"
    /\ \E action \in EngineActions :
           LET r == RegisterAction(action) IN
           /\ op' = "RegisterAction"
           /\ arg' = action
           /\ env' = [analyzers |-> analyzerRegistry, actions |-> registry]
           /\ ret' = [panic |-> r.panic]
           /\ calls' = <<>>
           /\ registry' = r.actions
           /\ pc' = IF r.panic THEN "panicked" ELSE pc
    /\ UNCHANGED <<memory, passCalls>>
    /\ UNCHANGED <<enabled, actions, knowledgeBase, dataCollectors, analyzers,
                   analyzerRegistry, ctxDone, suggestions, idx, executed, tick, passes>>

CallGetEnabledAnalyzers ==
    /\ op = ""
    /\ pc = "idle"
    /\ \E enabledAnalyzers \in SeqsUpTo(AnalyzerNames, MaxAllowList),
          iteration \in IterationOrders :
           LET r == GetEnabledAnalyzers(enabledAnalyzers, iteration) IN
           /\ op' = "GetEnabledAnalyzers"
           /\ arg' = enabledAnalyzers
           /\ env' = iteration
           /\ ret' = [result |-> r.result, err |-> r.err]
           /\ calls' = <<>>
    /\ UNCHANGED <<config, memory, loop>>

InitRegistry ==
    /\ enabled = FALSE
    /\ registry = <<>>
    /\ actions = <<>>
    /\ knowledgeBase = FALSE
    /\ dataCollectors = <<>>
    /\ analyzers = <<>>
    /\ analyzerRegistry = <<>>
    /\ op = "" /\ arg = <<>> /\ env = <<>> /\ ret = <<>> /\ calls = <<>>
    /\ pc = "idle" /\ ctxDone = FALSE /\ suggestions = <<>> /\ idx = 0 /\ executed = <<>>
    /\ tick = FALSE /\ passes = 0 /\ passCalls = <<>>
    /\ heap = <<>> /\ mu = <<>> /\ threads = <<>>

NextRegistry ==
    \/ CallRegisterAnalyzer
    \/ CallRegisterAction
    \/ CallGetEnabledAnalyzers
    \/ Return

SpecRegistry == InitRegistry /\ [][NextRegistry]_vars

-----------------------------------------------------------------------------
(* Properties of the registries *)

\* C13: registering under a name the same registry already holds panics and
\* leaves that registry as it was, the entry of the name included; under a
\* name it does not hold the instance is added and nothing else changes; the
\* other registry is neither consulted nor changed, so one name can be held
\* by both.
C13_DuplicateNamePanics ==
    /\ op = "RegisterAnalyzer"
        => /\ registry = env.actions
           /\ IF arg.name \in DOMAIN env.analyzers
              THEN ret.panic /\ analyzerRegistry = env.analyzers
              ELSE /\ ~ret.panic
                   /\ DOMAIN analyzerRegistry = DOMAIN env.analyzers \cup {arg.name}
                   /\ analyzerRegistry[arg.name] = arg
                   /\ \A n \in DOMAIN env.analyzers : analyzerRegistry[n] = env.analyzers[n]
    /\ op = "RegisterAction"
        => /\ analyzerRegistry = env.analyzers
           /\ IF arg.name \in DOMAIN env.actions
              THEN ret.panic /\ registry = env.actions
              ELSE /\ ~ret.panic
                   /\ DOMAIN registry = DOMAIN env.actions \cup {arg.name}
                   /\ registry[arg.name] = arg.Type
                   /\ \A n \in DOMAIN env.actions : registry[n] = env.actions[n]

\* an action was registered under a name that the action registry held with
\* another instance and that the analyzer registry holds too: panic, and the
\* first instance is still there
C13_Witness ==
    /\ op = "RegisterAction"
    /\ ret.panic
    /\ arg.name \in DOMAIN registry
    /\ registry[arg.name] # arg.Type
    /\ arg.name \in DOMAIN analyzerRegistry

\* C14: with a non-empty cfg.EnabledAnalyzers of registered names only,
\* GetEnabledAnalyzers returns, position by position, the registered
\* instances of the names and a nil error; if a name of the list is not
\* registered it returns an INVALID_INPUT error and no entry; with an empty
\* list it returns every registered instance once and a nil error.
C14_GetEnabledAnalyzers ==
    op = "GetEnabledAnalyzers"
        => IF Len(arg) = 0
           THEN /\ ret.err = NilErr
                /\ Len(ret.result) = Cardinality(DOMAIN analyzerRegistry)
                /\ {ret.result[i] : i \in 1..Len(ret.result)}
                       = {analyzerRegistry[n] : n \in DOMAIN analyzerRegistry}
           ELSE IF \A i \in 1..Len(arg) : arg[i] \in DOMAIN analyzerRegistry
           THEN /\ ret.err = NilErr
                /\ Len(ret.result) = Len(arg)
                /\ \A i \in 1..Len(arg) : ret.result[i] = analyzerRegistry[arg[i]]
           ELSE /\ ret.err # NilErr
                /\ ret.err.Code = ErrorCodeInvalidInput
                /\ ret.result = <<>>

\* the first name of the list is registered and the second is not: an error
\* and no entry, although other analyzers are registered
C14_Witness ==
    /\ op = "GetEnabledAnalyzers"
    /\ Len(arg) = 2
    /\ arg[1] \in DOMAIN analyzerRegistry
    /\ arg[2] \notin DOMAIN analyzerRegistry
    /\ Cardinality(DOMAIN analyzerRegistry) = 2
    /\ ret.err.Code = ErrorCodeInvalidInput
    /\ ret.result = <<>>

\* C25: the detector list that GetEnabledAnalyzers builds from one registry
\* content and one allow-list, and with it the order of the audit entries of
\* the passes of an engine built with it, is the same whenever it is built:
\* it does not depend on the order in which the range over the registry map
\* visits the names.
C25_DeterministicOrder ==
    op = "GetEnabledAnalyzers"
        => \A iteration \in IterationOrders :
               GetEnabledAnalyzers(arg, iteration).result = ret.result

-----------------------------------------------------------------------------
(* Concurrent calls on the action registry *)

Threads == 1..MaxThreads

\* a goroutine that has not called the registry yet
IdleThread ==
    [fn |-> "", name |-> "", Type |-> "", pc |-> "idle",
     found |-> FALSE, value |-> "", registered |-> FALSE, len |-> 0, names |-> {}]

CanLock_NoExclusion == TRUE

\* mu.Lock() goes through when no goroutine holds the lock in either mode
CanLock == mu.writer = 0 /\ mu.readers = {}

\* mu.RLock() goes through when no goroutine holds the write lock
CanRLock == mu.writer = 0

\* a goroutine calls RegisterAction(action)
StartRegisterAction(t) ==
    /\ threads[t].pc = "idle"
    /\ \E action \in EngineActions :
           threads' = [threads EXCEPT ![t] =
                          [@ EXCEPT !.fn = "RegisterAction", !.name = action.name,
                                    !.Type = action.Type, !.pc = "Lock"]]
    /\ UNCHANGED <<config, loop, heap, mu, op, arg, env, ret, calls>>

\* a goroutine calls GetAction(name)
StartGetAction(t) ==
    /\ threads[t].pc = "idle"
    /\ \E name \in ActionNames :
           threads' = [threads EXCEPT ![t] =
                          [@ EXCEPT !.fn = "GetAction", !.name = name, !.pc = "RLock"]]
    /\ UNCHANGED <<config, loop, heap, mu, op, arg, env, ret, calls>>

\* a goroutine calls ListActions()
StartListActions(t) ==
    /\ threads[t].pc = "idle"
    /\ threads' = [threads EXCEPT ![t] = [@ EXCEPT !.fn = "ListActions", !.pc = "RLock"]]
    /\ UNCHANGED <<config, loop, heap, mu, op, arg, env, ret, calls>>

\* globalActionRegistry.mu.Lock()
Lock(t) ==
    /\ threads[t].pc = "Lock"
    /\ CanLock
    /\ mu' = [mu EXCEPT !.writer = t]
    /\ threads' = [threads EXCEPT ![t].pc = "exists"]
    /\ UNCHANGED <<config, loop, heap, op, arg, env, ret, calls>>

\* if _, exists := globalActionRegistry.actions[name]; exists
RegisterExists(t) ==
    /\ threads[t].pc = "exists"
    /\ threads' = [threads EXCEPT ![t].pc =
                      IF threads[t].name \in DOMAIN registry THEN "panic" ELSE "assign"]
    /\ UNCHANGED <<config, loop, heap, mu, op, arg, env, ret, calls>>

\* globalActionRegistry.actions[name] = action
RegisterAssign(t) ==
    /\ threads[t].pc = "assign"
    /\ registry' = [n \in DOMAIN registry \cup {threads[t].name} |->
                       IF n = threads[t].name THEN threads[t].Type ELSE registry[n]]
    /\ threads' = [threads EXCEPT ![t].pc = "Unlock"]
    /\ UNCHANGED <<enabled, actions, knowledgeBase, dataCollectors, analyzers,
                   analyzerRegistry, loop, heap, mu, op, arg, env, ret, calls>>

\* panic(...): the deferred Unlock runs and the call ends in the panic
RegisterPanic(t) ==
    /\ threads[t].pc = "panic"
    /\ mu' = [mu EXCEPT !.writer = 0]
    /\ threads' = [threads EXCEPT ![t].pc = "panicked"]
    /\ UNCHANGED <<config, loop, heap, op, arg, env, ret, calls>>

\* the deferred globalActionRegistry.mu.Unlock() of a call that returns
Unlock(t) ==
    /\ threads[t].pc = "Unlock"
    /\ mu' = [mu EXCEPT !.writer = 0]
    /\ threads' = [threads EXCEPT ![t].pc = "returned"]
    /\ UNCHANGED <<config, loop, heap, op, arg, env, ret, calls>>

\* globalActionRegistry.mu.RLock()
RLock(t) ==
    /\ threads[t].pc = "RLock"
    /\ CanRLock
    /\ mu' = [mu EXCEPT !.readers = @ \cup {t}]
    /\ threads' = [threads EXCEPT ![t].pc =
                      IF threads[t].fn = "GetAction" THEN "lookup" ELSE "len"]
    /\ UNCHANGED <<config, loop, heap, op, arg, env, ret, calls>>

\* action, found := globalActionRegistry.actions[name]; registered notes
\* whether a RegisterAction of the name had returned by then
GetLookup(t) ==
    /\ threads[t].pc = "lookup"
    /\ threads' = [threads EXCEPT ![t] =
           [@ EXCEPT !.found = threads[t].name \in DOMAIN registry,
                     !.value = IF threads[t].name \in DOMAIN registry
                               THEN registry[threads[t].name] ELSE "",
                     !.registered = \E u \in Threads :
                                       /\ threads[u].fn = "RegisterAction"
                                       /\ threads[u].name = threads[t].name
                                       /\ threads[u].pc = "returned",
                     !.pc = "RUnlock"]]
    /\ UNCHANGED <<config, loop, heap, mu, op, arg, env, ret, calls>>

\* make([]string, 0, len(globalActionRegistry.actions))
ListLen(t) ==
    /\ threads[t].pc = "len"
    /\ threads' = [threads EXCEPT ![t] =
                      [@ EXCEPT !.len = Cardinality(DOMAIN registry), !.pc = "range"]]
    /\ UNCHANGED <<config, loop, heap, mu, op, arg, env, ret, calls>>

\* for name := range globalActionRegistry.actions
ListRange(t) ==
    /\ threads[t].pc = "range"
    /\ threads' = [threads EXCEPT ![t] =
                      [@ EXCEPT !.names = DOMAIN registry, !.pc = "RUnlock"]]
    /\ UNCHANGED <<config, loop, heap, mu, op, arg, env, ret, calls>>

\* the deferred globalActionRegistry.mu.RUnlock()
RUnlock(t) ==
    /\ threads[t].pc = "RUnlock"
    /\ mu' = [mu EXCEPT !.readers = @ \ {t}]
    /\ threads' = [threads EXCEPT ![t].pc = "returned"]
    /\ UNCHANGED <<config, loop, heap, op, arg, env, ret, calls>>

InitConcurrent ==
    /\ enabled = FALSE
    /\ registry = <<>>
    /\ actions = <<>>
    /\ knowledgeBase = FALSE
    /\ dataCollectors = <<>>
    /\ analyzers = <<>>
    /\ analyzerRegistry = <<>>
    /\ op = "" /\ arg = <<>> /\ env = <<>> /\ ret = <<>> /\ calls = <<>>
    /\ pc = "idle" /\ ctxDone = FALSE /\ suggestions = <<>> /\ idx = 0 /\ executed = <<>>
    /\ tick = FALSE /\ passes = 0 /\ passCalls = <<>>
    /\ heap = <<>>
    /\ mu = [writer |-> 0, readers |-> {}]
    /\ threads = [t \in Threads |-> IdleThread]

NextConcurrent ==
    \E t \in Threads :
        \/ StartRegisterAction(t)
        \/ StartGetAction(t)
        \/ StartListActions(t)
        \/ Lock(t)
        \/ RegisterExists(t)
        \/ RegisterAssign(t)
        \/ RegisterPanic(t)
        \/ Unlock(t)
        \/ RLock(t)
        \/ GetLookup(t)
        \/ ListLen(t)
        \/ ListRange(t)
        \/ RUnlock(t)

SpecConcurrent == InitConcurrent /\ [][NextConcurrent]_vars

\* the goroutines whose RegisterAction of the name has ended in the state at
RegistrationsEnded(name, at) ==
    {t \in Threads : /\ threads[t].fn = "RegisterAction"
                     /\ threads[t].name = name
                     /\ threads[t].pc = at}

\* C26: under every interleaving of RegisterAction, GetAction and
\* ListActions calls, of the registrations of one name that have ended
\* exactly one returned and the others panicked; the name of a registration
\* that returned is in the registry, bound to the instance of that
\* registration; a GetAction answers found exactly when a registration of
\* its name had returned, and then with that registration's instance; and
\* the names a ListActions collects are as many as the length it read.
C26_RegistryCallsAtomic ==
    /\ \A name \in ActionNames :
          (RegistrationsEnded(name, "returned") \cup RegistrationsEnded(name, "panicked")) # {}
              => Cardinality(RegistrationsEnded(name, "returned")) = 1
    /\ \A t \in Threads :
          /\ (threads[t].fn = "RegisterAction" /\ threads[t].pc = "returned")
                 => /\ threads[t].name \in DOMAIN registry
                    /\ registry[threads[t].name] = threads[t].Type
          /\ (threads[t].fn = "GetAction" /\ threads[t].pc \in {"RUnlock", "returned"})
                 => /\ threads[t].found = threads[t].registered
                    /\ threads[t].found
                           => \E u \in RegistrationsEnded(threads[t].name, "returned") :
                                  threads[u].Type = threads[t].value
          /\ (threads[t].fn = "ListActions" /\ threads[t].pc \in {"RUnlock", "returned"})
                 => Cardinality(threads[t].names) = threads[t].len

\* two registrations of one name with different instances have ended, one
\* returned and one panicked, and a GetAction of the name found the instance
\* of the one that returned
C26_Witness ==
    \E t, u, v \in Threads :
        /\ t \in RegistrationsEnded(threads[t].name, "returned")
        /\ u \in RegistrationsEnded(threads[t].name, "panicked")
        /\ threads[u].Type # threads[t].Type
        /\ threads[v].fn = "GetAction" /\ threads[v].name = threads[t].name
        /\ threads[v].pc = "returned" /\ threads[v].found
        /\ threads[v].value = threads[t].Type

-----------------------------------------------------------------------------
(* The agent loop of main *)

ShouldExecute_FlagIgnored(s) == s.ActionType = ActionTypeAutomated

\* the condition under which the loop passes a suggestion to ExecuteAction
ShouldExecute(s) == s.ActionType = ActionTypeAutomated /\ enabled

\* main's cancel(), called when a shutdown signal arrives
Cancel ==
    /\ pc # "idle"
    /\ ~ctxDone
    /\ ctxDone' = TRUE
    /\ UNCHANGED <<config, memory, op, arg, env, ret, calls, pc, suggestions, idx, executed,
                   tick, passes, passCalls>>

\* the ticker sends on ticker.C, which holds one tick; a tick that finds it
\* full is dropped
Tick ==
    /\ pc \notin {"idle", "stopped"}
    /\ ~tick
    /\ tick' = TRUE
    /\ UNCHANGED <<config, memory, op, arg, env, ret, calls, pc, ctxDone, suggestions, idx,
                   executed, passes, passCalls>>

\* select takes the ctx.Done() case
LoopStop ==
    /\ pc = "select"
    /\ ctxDone
    /\ pc' = "stopped"
    /\ UNCHANGED <<config, memory, op, arg, env, ret, calls, ctxDone, suggestions, idx, executed,
                   tick, passes, passCalls>>

AtSelect_AnyTime == pc \notin {"idle", "stopped"}

\* the goroutine receives from ticker.C in the select at the top of its for
\* loop and nowhere else
AtSelect == pc = "select"

\* select takes the ticker case: a pass starts with RunAnalysis.  cancelled
\* says that cancel() is called while RunAnalysis runs; RunAnalysis does not
\* look at ctx, and its collaborators may answer as they would have
RunAnalysisStep(cancelled) ==
    /\ AtSelect
    /\ tick
    /\ \E collectOuts \in [1..Len(dataCollectors) -> CollectOutcomes],
          analyzeOuts \in AnalyzeOutcomeLists :
            LET r == RunAnalysis(collectOuts, analyzeOuts) IN
            /\ op' = "RunAnalysis"
            /\ arg' = <<>>
            /\ env' = [collect |-> collectOuts, analyze |-> analyzeOuts,
                       cancelled |-> cancelled]
            /\ ret' = [result |-> r.result, err |-> r.err]
            /\ calls' = r.calls
            /\ passCalls' = passCalls \o r.calls
            /\ pc' = IF r.err # NilErr THEN "end"
                     ELSE IF Len(r.result.Issues) > 0 THEN "diagnose"
                     ELSE "end"
    /\ tick' = FALSE
    /\ passes' = passes + 1
    /\ UNCHANGED <<config, memory, suggestions, idx, executed>>

LoopRunAnalysis ==
    /\ RunAnalysisStep(FALSE)
    /\ UNCHANGED ctxDone

\* the same with the shutdown signal arriving during RunAnalysis
LoopRunAnalysisCancelled ==
    /\ ~ctxDone
    /\ RunAnalysisStep(TRUE)
    /\ ctxDone' = TRUE

\* the pass goes on with RunDiagnosis on the Analysis Result
LoopRunDiagnosis ==
    /\ pc = "diagnose"
    /\ \E kbOut \in RetrieveOutcomes, llmOut \in GenerateOutcomes,
          diagnosisErr \in DiagnosisErrValues :
            LET r == RunDiagnosis(ret.result, kbOut, llmOut, diagnosisErr) IN
            /\ op' = "RunDiagnosis"
            /\ arg' = ret.result
            /\ env' = [kb |-> kbOut, llm |-> llmOut, diagnosisErr |-> diagnosisErr]
            /\ ret' = [result |-> r.result, err |-> r.err]
            /\ calls' = r.calls
            /\ passCalls' = passCalls \o r.calls
            /\ pc' = IF r.err # NilErr THEN "end" ELSE "suggest"
    /\ UNCHANGED <<config, memory, ctxDone, suggestions, idx, executed, tick, passes>>

\* then with SuggestActions on the Diagnosis
LoopSuggestActions ==
    /\ pc = "suggest"
    /\ \E outs \in PlanOutcomeLists :
            LET r == SuggestActions(ret.result, outs) IN
            /\ op' = "SuggestActions"
            /\ arg' = ret.result
            /\ env' = outs
            /\ ret' = [result |-> r.result, err |-> r.err]
            /\ calls' = r.calls
            /\ passCalls' = passCalls \o r.calls
            /\ suggestions' = r.result
            /\ idx' = 1
            /\ pc' = IF r.err # NilErr THEN "end" ELSE "range"
    /\ UNCHANGED <<config, memory, ctxDone, executed, tick, passes>>

\* the range over the suggestions: an automated one is executed
LoopExecuteAction ==
    /\ pc = "range"
    /\ idx <= Len(suggestions)
    /\ ShouldExecute(suggestions[idx])
    /\ \E out \in ExecuteOutcomes :
            LET r == ExecuteAction(suggestions[idx], out) IN
            /\ op' = "ExecuteAction"
            /\ arg' = suggestions[idx]
            /\ env' = out
            /\ ret' = [result |-> r.result, err |-> r.err]
            /\ calls' = r.calls
            /\ executed' = executed \o r.calls
            /\ passCalls' = passCalls \o r.calls
    /\ idx' = idx + 1
    /\ UNCHANGED <<config, memory, ctxDone, pc, suggestions, tick, passes>>

\* any other suggestion is only logged
LoopLogSuggestion ==
    /\ pc = "range"
    /\ idx <= Len(suggestions)
    /\ ~ShouldExecute(suggestions[idx])
    /\ idx' = idx + 1
    /\ UNCHANGED <<config, memory, op, arg, env, ret, calls, ctxDone, pc, suggestions, executed,
                   tick, passes, passCalls>>

\* the pass is over (no issue, a failed stage, or the end of the range): its
\* results go out of scope and the loop selects again
LoopPassDone ==
    /\ \/ pc = "end"
       \/ pc = "range" /\ idx > Len(suggestions)
    /\ pc' = "select"
    /\ op' = "" /\ arg' = <<>> /\ env' = <<>> /\ ret' = <<>> /\ calls' = <<>>
    /\ suggestions' = <<>> /\ idx' = 0 /\ executed' = <<>>
    /\ passes' = passes - 1
    /\ passCalls' = <<>>
    /\ UNCHANGED <<config, memory, ctxDone, tick>>

\* the orders in which ListActions may return the names of the registry
ActionLists ==
    {l \in SeqsUpTo(EngineActions, Cardinality(DOMAIN registry)) :
        /\ Len(l) = Cardinality(DOMAIN registry)
        /\ {l[i].name : i \in 1..Len(l)} = DOMAIN registry
        /\ \A i \in 1..Len(l) : l[i].Type = registry[l[i].name]}

\* main builds the engine from the registries: the two collectors, the
\* registered analyzers in some order, every registered action
Init ==
    /\ enabled \in BOOLEAN
    /\ \E S \in SUBSET ActionNames : registry \in [S -> {ActionTypeSuggestion, ActionTypeAutomated}]
    /\ actions \in ActionLists
    /\ knowledgeBase \in BOOLEAN
    /\ dataCollectors = <<K8sDataCollector, BusinessDataCollector>>
    /\ analyzerRegistry = [n \in {K8sPodAnalyzer.name, BusinessLogAnalyzer.name} |->
                               IF n = K8sPodAnalyzer.name THEN K8sPodAnalyzer
                               ELSE BusinessLogAnalyzer]
    /\ \E iteration \in IterationOrders :
           analyzers = GetEnabledAnalyzers(<<>>, iteration).result
    /\ op = "" /\ arg = <<>> /\ env = <<>> /\ ret = <<>> /\ calls = <<>>
    /\ pc = "select" /\ ctxDone = FALSE /\ suggestions = <<>> /\ idx = 0 /\ executed = <<>>
    /\ tick = FALSE /\ passes = 0 /\ passCalls = <<>>
    /\ heap = <<>> /\ mu = <<>> /\ threads = <<>>

Next ==
    \/ Cancel
    \/ Tick
    \/ LoopStop
    \/ LoopRunAnalysis
    \/ LoopRunAnalysisCancelled
    \/ LoopRunDiagnosis
    \/ LoopSuggestActions
    \/ LoopExecuteAction
    \/ LoopLogSuggestion
    \/ LoopPassDone

Spec == Init /\ [][Next]_vars

-----------------------------------------------------------------------------
(* Properties of the agent loop *)

\* C3: in a pass of the agent loop with automation disabled no suggestion
\* returned by SuggestActions is passed to ExecuteAction and no action's
\* Execute is invoked, whatever the actions plan and the LLM answers.
C3_DisabledLoopExecutesNothing ==
    ~enabled
        => /\ op # "ExecuteAction"
           /\ executed = <<>>
           /\ \A k \in 1..Len(calls) : calls[k].fn # "Execute"

\* with automation disabled the loop has ranged over a list that holds an
\* action-planned suggestion classified automated, up to its end
C3_Witness ==
    /\ ~enabled
    /\ pc = "range"
    /\ idx = Len(suggestions) + 1
    /\ \E k \in 1..Len(suggestions) :
          /\ suggestions[k].ActionType = ActionTypeAutomated
          /\ suggestions[k].Source \in DOMAIN registry
    /\ op = "SuggestActions"

\* C19: an Analysis Result of a RunAnalysis during which the top-level
\* context was cancelled is not tagged completed.
C19_CancelledNotCompleted ==
    (op = "RunAnalysis" /\ env.cancelled)
        => ret.result.Status # AnalysisStatusCompleted

\* a pass is in flight: the goroutine is below the ticker case
InFlight == pc \in {"diagnose", "suggest", "range", "end"}

\* C20: at most one pass of the agent loop is in flight, also when a tick
\* arrives during a pass; ExecuteAction is called from the pass in flight
\* only, once per suggestion at most, and invokes Execute once at most.
C20_PassesSerialized ==
    /\ passes <= 1
    /\ InFlight <=> passes = 1
    /\ op = "ExecuteAction" => (passes = 1 /\ pc = "range" /\ Len(calls) <= 1)
    /\ pc = "range" => Len(executed) < idx
    /\ ~InFlight => executed = <<>>

\* a tick arrived during a pass that has executed an action: it waits in
\* ticker.C and no second pass has started
C20_Witness ==
    /\ pc = "range"
    /\ tick
    /\ op = "ExecuteAction"
    /\ executed # <<>>
    /\ passes = 1

\* C21: no invocation of a pass is repeated: Collect once per collector,
\* Analyze once per analyzer at most, Retrieve and GenerateText once at most,
\* Plan once per action at most, and Execute once at most per ExecuteAction
\* call and per suggestion, whatever the invocations answered.
C21_NoRetries ==
    /\ \A k, l \in 1..Len(passCalls) : k # l => passCalls[k] # passCalls[l]
    /\ Cardinality({k \in 1..Len(passCalls) : passCalls[k].fn = "Collect"}) <= Len(dataCollectors)
    /\ Cardinality({k \in 1..Len(passCalls) : passCalls[k].fn = "Analyze"}) <= Len(analyzers)
    /\ Cardinality({k \in 1..Len(passCalls) : passCalls[k].fn = "Retrieve"}) <= 1
    /\ Cardinality({k \in 1..Len(passCalls) : passCalls[k].fn = "GenerateText"}) <= 1
    /\ Cardinality({k \in 1..Len(passCalls) : passCalls[k].fn = "Plan"}) <= Len(actions)
    /\ Cardinality({k \in 1..Len(passCalls) : passCalls[k].fn = "Execute"}) <= Len(suggestions)
    /\ op = "ExecuteAction" => Len(calls) <= 1

\* a pass in which a Collect, the Retrieve, a Plan and an Execute failed has
\* reached the end of its range
C21_Witness ==
    /\ pc = "range"
    /\ idx = Len(suggestions) + 1
    /\ op = "ExecuteAction"
    /\ ~env.ok
    /\ Len(executed) = 1
    /\ \E k \in 1..Len(passCalls) : passCalls[k].fn = "Retrieve"
    /\ \E k \in 1..Len(passCalls) : passCalls[k].fn = "Plan"
    /\ Cardinality({k \in 1..Len(passCalls) : passCalls[k].fn = "Collect"}) = Len(dataCollectors)

\* C27: every suggestion of the Diagnosis that RunDiagnosis returns has
\* ActionType Suggestion and Source "LLM", and ExecuteAction answers it with
\* INVALID_INPUT and no Execute, whatever the answer of the LLM was; every
\* other suggestion that SuggestActions returns is the answer of a Plan
\* invocation; and every Execute invocation of a pass is for a suggestion of
\* the list whose Source is not "LLM" but an action that planned before.
C27_OnlyPlannedSuggestionsExecute ==
    /\ (op = "RunDiagnosis" /\ ret.result # <<>>)
           => \A k \in 1..Len(ret.result.Suggestions) :
                 /\ ret.result.Suggestions[k].ActionType = ActionTypeSuggestion
                 /\ ret.result.Suggestions[k].Source = "LLM"
                 /\ \A out \in ExecuteOutcomes :
                       /\ ExecuteAction(ret.result.Suggestions[k], out).calls = <<>>
                       /\ ExecuteAction(ret.result.Suggestions[k], out).err.Code
                              = ErrorCodeInvalidInput
    /\ op = "SuggestActions"
           => \A k \in 1..Len(ret.result) :
                 ret.result[k].Source # "LLM"
                     => \E i \in 1..Len(actions) :
                            PlanCalledAt(i) /\ env[i].suggestion = ret.result[k]
    /\ \A k \in 1..Len(passCalls) :
          passCalls[k].fn = "Execute"
              => /\ passCalls[k].suggestion.Source # "LLM"
                 /\ \E j \in 1..Len(suggestions) : suggestions[j] = passCalls[k].suggestion
                 /\ \E l \in 1..(k - 1) :
                       /\ passCalls[l].fn = "Plan"
                       /\ passCalls[l].name = passCalls[k].suggestion.Source

\* a pass whose list holds the suggestion of the LLM and a planned one, of
\* which only the planned one was executed
C27_Witness ==
    /\ op = "ExecuteAction"
    /\ Len(calls) = 1
    /\ Len(suggestions) = 2
    /\ suggestions[1].Source = "LLM"
    /\ arg = suggestions[2]
    /\ idx = 3
    /\ Len(SelectSeq(passCalls, LAMBDA c : c.fn = "Execute")) = 1

\* C28: once the context of the agent loop is cancelled no step of the loop
\* begins a RunAnalysis call, also not with a tick waiting on ticker.C.
C28_NoPassAfterCancel == [][ctxDone => passes' <= passes]_vars

====
